---- MODULE Spec2Model ----
(***************************************************************************)
(* Model of the Canvas SIS Prep Tool (src/main.py): the entity model, the  *)
(* DataManager store with its JSON persistence, and the handlers of the    *)
(* App / dialogs that mutate the store.                                    *)
(*                                                                         *)
(* Text is modelled as a sequence of one-character strings, so that        *)
(* str.upper(), the "name (id)" combobox labels and their parsing are      *)
(* computed character by character.  A Python dict is modelled as a        *)
(* sequence of [k, v] entries in insertion order.                          *)
(***************************************************************************)
EXTENDS Integers, Sequences, FiniteSets, TLC

VARIABLES
    dm,         \* the DataManager object: people, courses, terms, accounts,
                \* program_areas, enrollment_roles, sections
    file,       \* the content of DATA_FILE (course_data.json)
    last,       \* the last handler that ran, its inputs and the message it showed
    courseSrc,  \* history: for each key of dm.courses, the text handed to Course()
    disk        \* the CSV files of the folder chosen for exports: name -> content

\* the handler's name stands first: the records of two different handlers carry
\* inputs of different shapes and are told apart by the name alone
vars == <<last.op, dm, file, last, courseSrc, disk>>

----------------------------------------------------------------------------
(* Text *)

LowerChars == <<"a","b","c","d","e","f","g","h","i","j","k","l","m",
                "n","o","p","q","r","s","t","u","v","w","x","y","z">>

UpperChars == <<"A","B","C","D","E","F","G","H","I","J","K","L","M",
                "N","O","P","Q","R","S","T","U","V","W","X","Y","Z">>

UpperChar(c) ==
    IF \E i \in DOMAIN LowerChars : LowerChars[i] = c
    THEN UpperChars[CHOOSE i \in DOMAIN LowerChars : LowerChars[i] = c]
    ELSE c

\* Python's None, kept comparable with text
None == <<"<None>">>

\* str.upper()
Upper(s) == [i \in DOMAIN s |-> UpperChar(s[i])]

\* Python truthiness of a text value: "" and None are falsy
Falsy(s) == s = <<>> \/ s = None

\* str.rfind(c), 1-based; 0 when c does not occur
RFind(s, c) ==
    IF \E i \in DOMAIN s : s[i] = c
    THEN CHOOSE i \in DOMAIN s : s[i] = c /\ \A j \in DOMAIN s : s[j] = c => j <= i
    ELSE 0

\* s[rfind('(') + 1 : -1]
AfterLastParen(s) == SubSeq(s, RFind(s, "(") + 1, Len(s) - 1)

\* the start of the last occurrence of " (" in s, 0 when there is none
RFindSpaceParen(s) ==
    LET hits == {i \in 1..(Len(s) - 1) : s[i] = " " /\ s[i + 1] = "("}
    IN  IF hits = {} THEN 0 ELSE CHOOSE i \in hits : \A j \in hits : j <= i

\* s.rsplit(' (', 1)[0] if ' (' in s else ''
BeforeLastSpaceParen(s) ==
    IF RFindSpaceParen(s) = 0 THEN <<>> ELSE SubSeq(s, 1, RFindSpaceParen(s) - 1)

\* f"{a} ({b})"
Label(a, b) == a \o <<" ", "(">> \o b \o <<")">>

----------------------------------------------------------------------------
(* Python dict: entries in insertion order *)

Keys(d) == {d[i].k : i \in DOMAIN d}

Has(d, key) == \E i \in DOMAIN d : d[i].k = key

Get(d, key) == d[CHOOSE i \in DOMAIN d : d[i].k = key].v

\* d[key] = val : replaces in place, or appends
Put(d, key, val) ==
    IF Has(d, key)
    THEN [i \in DOMAIN d |-> IF d[i].k = key THEN [k |-> key, v |-> val] ELSE d[i]]
    ELSE Append(d, [k |-> key, v |-> val])

\* del d[key]
Del(d, key) == SelectSeq(d, LAMBDA e : e.k # key)

\* d.get(key, dflt) on a flat mapping (a function from field names)
FieldOr(data, f, dflt) == IF f \in DOMAIN data THEN data[f] ELSE dflt

\* a mapping with the keys K, its values taken from the mapping `all`
Only(K, all) == [f \in K |-> all[f]]

\* the values of a dict, as a set
Values(d) == {d[i].v : i \in DOMAIN d}

----------------------------------------------------------------------------
(* Core data models *)

T_active == <<"a","c","t","i","v","e">>

ProgramArea(name) == [name |-> name]

ProgramArea_to_dict(o) == [name |-> o.name]

ProgramArea_raises(data) == "name" \notin DOMAIN data

ProgramArea_from_dict(data) == ProgramArea(data["name"])

Person(name, user_id, program_area_name) ==
    [name |-> name, user_id |-> user_id, program_area_name |-> program_area_name]

Person_to_dict(o) ==
    [name |-> o.name, user_id |-> o.user_id, program_area_name |-> o.program_area_name]

Person_raises(data) == ~({"name", "user_id"} \subseteq DOMAIN data)

Person_from_dict(data) ==
    Person(data["name"], data["user_id"], FieldOr(data, "program_area_name", <<>>))

\* Course.__init__ keeping course_id_portion as given
CourseNoUpper(short_name, long_name, course_id_portion, program_area_name) ==
    [short_name |-> short_name, long_name |-> long_name,
     course_id_portion |-> course_id_portion,
     program_area_name |-> program_area_name]

Course(short_name, long_name, course_id_portion, program_area_name) ==
    [short_name |-> short_name, long_name |-> long_name,
     course_id_portion |-> Upper(course_id_portion),
     program_area_name |-> program_area_name]

Course_to_dict(o) ==
    [short_name |-> o.short_name, long_name |-> o.long_name,
     course_id_portion |-> o.course_id_portion,
     program_area_name |-> o.program_area_name]

Course_raises(data) ==
    ~({"short_name", "long_name", "course_id_portion"} \subseteq DOMAIN data)

Course_from_dict(data) ==
    Course(data["short_name"], data["long_name"], data["course_id_portion"],
           FieldOr(data, "program_area_name", <<>>))

Term(term_id, name, short_code) ==
    [term_id |-> term_id, name |-> name, short_code |-> short_code]

Term_to_dict(o) == [term_id |-> o.term_id, name |-> o.name, short_code |-> o.short_code]

Term_from_dict(data) ==
    Term(FieldOr(data, "term_id", <<>>), FieldOr(data, "name", <<>>),
         FieldOr(data, "short_code", <<>>))

Account(account_id) == [account_id |-> account_id]

Account_to_dict(o) == [account_id |-> o.account_id]

Account_raises(data) == "account_id" \notin DOMAIN data

Account_from_dict(data) == Account(data["account_id"])

Enrollment(user_id, role, status) == [user_id |-> user_id, role |-> role, status |-> status]

Enrollment_to_dict(o) == [user_id |-> o.user_id, role |-> o.role, status |-> o.status]

Enrollment_raises(data) == ~({"user_id", "role"} \subseteq DOMAIN data)

Enrollment_from_dict(data) ==
    Enrollment(data["user_id"], data["role"], FieldOr(data, "status", T_active))

\* Section.__init__ : the attributes it sets, enrollments empty
Section(course_id_portion, term_name, account_id, section_number, status, start_date, end_date) ==
    [course_id_portion |-> course_id_portion, term_name |-> term_name,
     account_id |-> account_id, section_number |-> section_number,
     status |-> status, start_date |-> start_date, end_date |-> end_date,
     enrollments |-> <<>>]

Section_to_dict(o) ==
    [course_id_portion |-> o.course_id_portion, term_name |-> o.term_name,
     account_id |-> o.account_id, section_number |-> o.section_number,
     status |-> o.status, start_date |-> o.start_date, end_date |-> o.end_date,
     enrollments |-> [i \in DOMAIN o.enrollments |-> Enrollment_to_dict(o.enrollments[i])]]

Section_raises(data) ==
    \/ ~({"course_id_portion", "account_id", "section_number"} \subseteq DOMAIN data)
    \/ /\ "enrollments" \in DOMAIN data
       /\ \E i \in DOMAIN data["enrollments"] : Enrollment_raises(data["enrollments"][i])

Section_from_dict(data) ==
    [Section(data["course_id_portion"], FieldOr(data, "term_name", None),
             data["account_id"], data["section_number"],
             FieldOr(data, "status", T_active), FieldOr(data, "start_date", <<>>),
             FieldOr(data, "end_date", <<>>))
     EXCEPT !.enrollments =
        IF "enrollments" \in DOMAIN data
        THEN [i \in DOMAIN data["enrollments"] |->
                 Enrollment_from_dict(data["enrollments"][i])]
        ELSE <<>>]

\* Section.add_enrollment
Section_add_enrollment(section, enrollment) ==
    [section EXCEPT !.enrollments = Append(@, enrollment)]

\* hasattr(obj, attr) on a model object
HasAttr(o, attr) == attr \in DOMAIN o

----------------------------------------------------------------------------
(* DataManager: defaults, save, load *)

T_Student == <<"S","t","u","d","e","n","t">>
T_student == <<"s","t","u","d","e","n","t">>
T_TeachingAssistant == <<"T","e","a","c","h","i","n","g"," ","A","s","s","i","s","t","a","n","t">>
T_ta == <<"t","a">>
T_Instructor == <<"I","n","s","t","r","u","c","t","o","r">>
T_teacher == <<"t","e","a","c","h","e","r">>
T_ProgramManager == <<"P","r","o","g","r","a","m"," ","M","a","n","a","g","e","r">>

get_default_roles ==
    << [k |-> T_Student, v |-> T_student],
       [k |-> T_TeachingAssistant, v |-> T_ta],
       [k |-> T_Instructor, v |-> T_teacher],
       [k |-> T_ProgramManager, v |-> T_ProgramManager] >>

\* the attributes as DataManager.__init__ sets them before load_data runs
Blank ==
    [people |-> <<>>, courses |-> <<>>, terms |-> <<>>, accounts |-> <<>>,
     program_areas |-> <<>>, enrollment_roles |-> <<>>, sections |-> <<>>]

initialize_empty ==
    [people |-> <<>>, courses |-> <<>>, terms |-> <<>>, accounts |-> <<>>,
     program_areas |-> <<>>, enrollment_roles |-> get_default_roles,
     sections |-> <<>>]

\* {key: f(obj) for key, obj in d.items()}
MapDict(d, F(_)) == [i \in DOMAIN d |-> [k |-> d[i].k, v |-> F(d[i].v)]]

\* DATA_FILE: absent, not parseable as JSON, or a JSON document
NoFile == [kind |-> "nofile"]
Corrupt == [kind |-> "corrupt"]
JsonFile(data) == [kind |-> "json", data |-> data]

\* the document save_data dumps
save_document(self) ==
    [people |-> MapDict(self.people, Person_to_dict),
     courses |-> MapDict(self.courses, Course_to_dict),
     terms |-> MapDict(self.terms, Term_to_dict),
     accounts |-> MapDict(self.accounts, Account_to_dict),
     program_areas |-> MapDict(self.program_areas, ProgramArea_to_dict),
     enrollment_roles |-> self.enrollment_roles,
     sections |-> [i \in DOMAIN self.sections |-> Section_to_dict(self.sections[i])]]

\* save_data with the write succeeding
save_data(self) == JsonFile(save_document(self))

\* load_data, lines 175-180: the Terms re-keyed by display name, in file order
RECURSIVE RekeyTerms(_, _)
RekeyTerms(raw_terms, i) ==
    IF i = 0 THEN <<>>
    ELSE LET term_obj == Term_from_dict(raw_terms[i].v)
             named == IF Falsy(term_obj.name)
                      THEN [term_obj EXCEPT !.name = term_obj.term_id]
                      ELSE term_obj
         IN  Put(RekeyTerms(raw_terms, i - 1), named.name, named)

\* load_data, lines 174-180: term_id_to_name_map, built in the same pass
RECURSIVE TermIdToNameMap(_, _)
TermIdToNameMap(raw_terms, i) ==
    IF i = 0 THEN <<>>
    ELSE LET term_obj == Term_from_dict(raw_terms[i].v)
             name == IF Falsy(term_obj.name) THEN term_obj.term_id ELSE term_obj.name
         IN  Put(TermIdToNameMap(raw_terms, i - 1), term_obj.term_id, name)

\* next((t.name for t in terms.values() if t.term_id == term_id), None)
FirstTermNameById(terms, term_id) ==
    IF \E i \in DOMAIN terms : terms[i].v.term_id = term_id
    THEN terms[CHOOSE i \in DOMAIN terms :
                  /\ terms[i].v.term_id = term_id
                  /\ \A j \in DOMAIN terms : terms[j].v.term_id = term_id => i <= j].v.name
    ELSE None

\* the migration without the test that the term_name is no key of the Terms
MigrateSectionAnyName(section, terms, term_id_to_name_map) ==
    IF ~Falsy(section.term_name) /\ Has(term_id_to_name_map, section.term_name)
    THEN [section EXCEPT !.term_name = Get(term_id_to_name_map, section.term_name)]
    ELSE section

\* load_data, lines 185-192: the migration of one Section
MigrateSection(section, terms, term_id_to_name_map) ==
    IF HasAttr(section, "term_id") /\ ~HasAttr(section, "term_name")
    THEN [f \in (DOMAIN section \ {"term_id"}) \cup {"term_name"} |->
             IF f = "term_name" THEN FirstTermNameById(terms, section["term_id"])
             ELSE section[f]]
    ELSE IF ~Falsy(section.term_name) /\ ~Has(terms, section.term_name)
              /\ Has(term_id_to_name_map, section.term_name)
         THEN [section EXCEPT !.term_name = Get(term_id_to_name_map, section.term_name)]
         ELSE section

\* the statement of load_data's try block that raises KeyError on this document,
\* 0 when none does (lines 166, 167, 170, 181, 182)
LoadRaisesAt(data) ==
    LET people == FieldOr(data, "people", <<>>)
        courses == FieldOr(data, "courses", <<>>)
        pas == FieldOr(data, "program_areas", FieldOr(data, "departments", <<>>))
        accounts == FieldOr(data, "accounts", <<>>)
        sections == FieldOr(data, "sections", <<>>)
    IN  IF \E i \in DOMAIN people : Person_raises(people[i].v) THEN 1
        ELSE IF \E i \in DOMAIN courses : Course_raises(courses[i].v) THEN 2
        ELSE IF \E i \in DOMAIN pas : ProgramArea_raises(pas[i].v) THEN 3
        ELSE IF \E i \in DOMAIN accounts : Account_raises(accounts[i].v) THEN 5
        ELSE IF \E i \in DOMAIN sections : Section_raises(sections[i]) THEN 6
        ELSE 0

\* the attributes after the statements of the try block before statement `upto`
\* have run (upto = 8: all of them, the migration loop included)
LoadAssigned(self, data, upto) ==
    LET raw_terms == FieldOr(data, "terms", <<>>)
        terms == RekeyTerms(raw_terms, Len(raw_terms))
        idmap == TermIdToNameMap(raw_terms, Len(raw_terms))
        secs == FieldOr(data, "sections", <<>>)
        loaded == [i \in DOMAIN secs |-> Section_from_dict(secs[i])]
    IN  [people |-> IF upto > 1
                    THEN MapDict(FieldOr(data, "people", <<>>), Person_from_dict)
                    ELSE self.people,
         courses |-> IF upto > 2
                     THEN MapDict(FieldOr(data, "courses", <<>>), Course_from_dict)
                     ELSE self.courses,
         program_areas |-> IF upto > 3
                           THEN MapDict(FieldOr(data, "program_areas",
                                                FieldOr(data, "departments", <<>>)),
                                        ProgramArea_from_dict)
                           ELSE self.program_areas,
         terms |-> IF upto > 4 THEN terms ELSE self.terms,
         accounts |-> IF upto > 5
                      THEN MapDict(FieldOr(data, "accounts", <<>>), Account_from_dict)
                      ELSE self.accounts,
         sections |-> IF upto > 7
                      THEN [i \in DOMAIN loaded |-> MigrateSection(loaded[i], terms, idmap)]
                      ELSE IF upto > 6 THEN loaded ELSE self.sections,
         enrollment_roles |-> IF upto > 7
                              THEN FieldOr(data, "enrollment_roles", get_default_roles)
                              ELSE self.enrollment_roles]

\* load_data: the attributes it leaves and how it ended:
\*   "fresh"    no file, initialize_empty
\*   "fallback" an exception the except clause names, initialize_empty
\*   "raised"   an exception it does not name (KeyError) leaves load_data
\*   "loaded"   the try block ran to its end
load_data(self, f) ==
    IF f.kind = "nofile" THEN [dm |-> initialize_empty, outcome |-> "fresh"]
    ELSE IF f.kind = "corrupt" THEN [dm |-> initialize_empty, outcome |-> "fallback"]
    ELSE IF LoadRaisesAt(f.data) # 0
         THEN [dm |-> LoadAssigned(self, f.data, LoadRaisesAt(f.data)),
               outcome |-> "raised"]
         ELSE [dm |-> LoadAssigned(self, f.data, 8), outcome |-> "loaded"]

----------------------------------------------------------------------------
(* App: the entity handlers add_item, edit_item, delete_item *)

ItemNames == {"Person", "Course", "Term", "Account", "Program Area"}

\* data_map: the DataManager attribute an item name stands for
data_map(item_name) ==
    CASE item_name = "Person" -> "people"
      [] item_name = "Course" -> "courses"
      [] item_name = "Term" -> "terms"
      [] item_name = "Account" -> "accounts"
      [] item_name = "Program Area" -> "program_areas"

key_field_map(item_name) ==
    CASE item_name = "Person" -> "user_id"
      [] item_name = "Course" -> "course_id_portion"
      [] item_name = "Term" -> "name"
      [] item_name = "Account" -> "account_id"
      [] item_name = "Program Area" -> "name"

\* fields_map: the fields of the dialog of an item name
fields_map(item_name) ==
    CASE item_name = "Person" -> {"user_id", "name", "program_area_name"}
      [] item_name = "Course" ->
            {"course_id_portion", "short_name", "long_name", "program_area_name"}
      [] item_name = "Term" -> {"name", "term_id", "short_code"}
      [] item_name = "Account" -> {"account_id"}
      [] item_name = "Program Area" -> {"name"}

\* constructors[item_name](**dialog.result)
constructors(item_name, result) ==
    CASE item_name = "Person" ->
            Person(result["name"], result["user_id"], result["program_area_name"])
      [] item_name = "Course" ->
            Course(result["short_name"], result["long_name"],
                   result["course_id_portion"], result["program_area_name"])
      [] item_name = "Term" ->
            Term(result["term_id"], result["name"], result["short_code"])
      [] item_name = "Account" -> Account(result["account_id"])
      [] item_name = "Program Area" -> ProgramArea(result["name"])

\* obj.to_dict() by item name
to_dict(item_name, o) ==
    CASE item_name = "Person" -> Person_to_dict(o)
      [] item_name = "Course" -> Course_to_dict(o)
      [] item_name = "Term" -> Term_to_dict(o)
      [] item_name = "Account" -> Account_to_dict(o)
      [] item_name = "Program Area" -> ProgramArea_to_dict(o)

\* ManagementDialog.validate: a combobox (the program area of a Person or a
\* Course) holds "" or one of the listed program areas
ManagementDialog_validate(self, result) ==
    "program_area_name" \in DOMAIN result =>
        \/ Falsy(result["program_area_name"])
        \/ Has(self.program_areas, result["program_area_name"])

\* add_item, lines 735-738
AddBlankField(result) ==
    \E f \in DOMAIN result : Falsy(result[f]) /\ f # "program_area_name"

\* add_item without the test of line 744
add_item_nocheck(self, item_name, result) ==
    LET key == result[key_field_map(item_name)]
    IN  IF AddBlankField(result) THEN [dm |-> self, msg |-> "InputError"]
        ELSE [dm |-> [self EXCEPT ![data_map(item_name)] =
                          Put(@, key, constructors(item_name, result))],
              msg |-> "ok"]

\* add_item after the dialog returned `result`: the attributes and the message
add_item(self, item_name, result) ==
    LET key == result[key_field_map(item_name)]
    IN  IF AddBlankField(result) THEN [dm |-> self, msg |-> "InputError"]
        ELSE IF Has(self[data_map(item_name)], key)
             THEN [dm |-> self, msg |-> "DuplicateKey"]
             ELSE [dm |-> [self EXCEPT ![data_map(item_name)] =
                               Put(@, key, constructors(item_name, result))],
                   msg |-> "ok"]

\* edit_item, lines 794-797
EditBlankField(item_name, result) ==
    \E f \in DOMAIN result :
        f # key_field_map(item_name) /\ Falsy(result[f]) /\ f # "program_area_name"

\* the loop of lines 805-807 stopping after the first Section
RenameFirstTermRef(sections, key, new_key) ==
    [i \in DOMAIN sections |->
        IF i = 1 /\ sections[i].term_name = key
        THEN [sections[i] EXCEPT !.term_name = new_key]
        ELSE sections[i]]

\* the loops of lines 809-812 rewriting every assigned Program Area
RenameAllProgramAreaRefs(d, key, new_key) ==
    [i \in DOMAIN d |->
        IF Falsy(d[i].v.program_area_name) THEN d[i]
        ELSE [d[i] EXCEPT !.v.program_area_name = new_key]]

\* edit_item, lines 805-807 and 809-812: the references updated on a rename
RenameTermRefs(sections, key, new_key) ==
    [i \in DOMAIN sections |->
        IF sections[i].term_name = key
        THEN [sections[i] EXCEPT !.term_name = new_key]
        ELSE sections[i]]

RenameProgramAreaRefs(d, key, new_key) ==
    [i \in DOMAIN d |->
        IF d[i].v.program_area_name = key
        THEN [d[i] EXCEPT !.v.program_area_name = new_key]
        ELSE d[i]]

\* edit_item, lines 804-813: the rename of `key` to the unused `new_key`
edit_rename(self, item_name, key, new_key) ==
    LET s1 == IF item_name = "Term"
              THEN [self EXCEPT !.sections = RenameTermRefs(@, key, new_key)]
              ELSE self
        s2 == IF item_name = "Program Area"
              THEN [s1 EXCEPT !.people = RenameProgramAreaRefs(@, key, new_key),
                              !.courses = RenameProgramAreaRefs(@, key, new_key)]
              ELSE s1
    IN  [s2 EXCEPT ![data_map(item_name)] = Del(@, key)]

\* edit_item without the test of line 801
edit_item_nocheck(self, item_name, key, result) ==
    LET new_key == result[key_field_map(item_name)]
    IN  IF EditBlankField(item_name, result) THEN [dm |-> self, msg |-> "InputError"]
        ELSE LET s == IF new_key # key
                      THEN edit_rename(self, item_name, key, new_key)
                      ELSE self
             IN  [dm |-> [s EXCEPT ![data_map(item_name)] =
                              Put(@, new_key, constructors(item_name, result))],
                  msg |-> "ok"]

\* edit_item of the selected `key` after the dialog returned `result`
edit_item(self, item_name, key, result) ==
    LET new_key == result[key_field_map(item_name)]
    IN  IF EditBlankField(item_name, result) THEN [dm |-> self, msg |-> "InputError"]
        ELSE IF new_key # key /\ Has(self[data_map(item_name)], new_key)
             THEN [dm |-> self, msg |-> "DuplicateKey"]
             ELSE LET s == IF new_key # key
                           THEN edit_rename(self, item_name, key, new_key)
                           ELSE self
                  IN  [dm |-> [s EXCEPT ![data_map(item_name)] =
                                   Put(@, new_key, constructors(item_name, result))],
                       msg |-> "ok"]

\* delete_item, lines 845-857: the in-use checks
InUse(self, item_name, key) ==
    \/ /\ item_name = "Person"
       /\ \E i \in DOMAIN self.sections :
             \E j \in DOMAIN self.sections[i].enrollments :
                self.sections[i].enrollments[j].user_id = key
    \/ /\ item_name = "Program Area"
       /\ \/ \E i \in DOMAIN self.people : self.people[i].v.program_area_name = key
          \/ \E i \in DOMAIN self.courses : self.courses[i].v.program_area_name = key
    \/ /\ item_name = "Course"
       /\ \E i \in DOMAIN self.sections : self.sections[i].course_id_portion = key
    \/ /\ item_name = "Term"
       /\ \E i \in DOMAIN self.sections : self.sections[i].term_name = key
    \/ /\ item_name = "Account"
       /\ \E i \in DOMAIN self.sections : self.sections[i].account_id = key

\* delete_item without the in-use tests of lines 845-857
delete_item_nocheck(self, item_name, key, confirm) ==
    IF ~confirm THEN [dm |-> self, msg |-> "cancelled"]
    ELSE [dm |-> [self EXCEPT ![data_map(item_name)] = Del(@, key)], msg |-> "ok"]

\* delete_item of the selected `key`; `confirm` is the answer to askyesno
delete_item(self, item_name, key, confirm) ==
    IF InUse(self, item_name, key) THEN [dm |-> self, msg |-> "EntityInUse"]
    ELSE IF ~confirm THEN [dm |-> self, msg |-> "cancelled"]
    ELSE [dm |-> [self EXCEPT ![data_map(item_name)] = Del(@, key)], msg |-> "ok"]

----------------------------------------------------------------------------
(* App and dialogs: the Section and Enrollment handlers *)

T_AllProgramAreas == <<"A","l","l"," ","P","r","o","g","r","a","m"," ","A","r","e","a","s">>

\* pa_combo values of SectionDialog and EnrollmentDialog
pa_values(self) == {T_AllProgramAreas} \cup Keys(self.program_areas)

\* SectionDialog.update_course_options: the labels offered for a filter
course_options(self, selected_pa) ==
    {Label(self.courses[i].v.short_name, self.courses[i].k) :
        i \in {j \in DOMAIN self.courses :
                 \/ selected_pa = T_AllProgramAreas
                 \/ self.courses[j].v.program_area_name = selected_pa}}

\* SectionDialog.body, line 1187
term_display(self) ==
    {Label(self.terms[i].v.name, self.terms[i].v.term_id) : i \in DOMAIN self.terms}

\* SectionDialog.validate: what OK accepts
SectionDialog_validate(self, course_str, term_str, account_str, section_number) ==
    /\ ~Falsy(course_str)
    /\ \E selected_pa \in pa_values(self) : course_str \in course_options(self, selected_pa)
    /\ ~Falsy(term_str) /\ term_str \in term_display(self)
    /\ ~Falsy(account_str) /\ account_str \in Keys(self.accounts)
    /\ ~Falsy(section_number)

\* SectionDialog.apply
SectionDialog_apply(course_str, term_str, account_str, section_number, status, start_date, end_date) ==
    [course_id_portion |-> IF RFind(course_str, "(") # 0
                           THEN AfterLastParen(course_str) ELSE <<>>,
     term_name |-> BeforeLastSpaceParen(term_str),
     account_id |-> account_str,
     section_number |-> section_number,
     status |-> status, start_date |-> start_date, end_date |-> end_date]

\* create_section, lines 656-657
create_section(self, result) ==
    [self EXCEPT !.sections =
        Append(@, Section(result.course_id_portion, result.term_name,
                          result.account_id, result.section_number, result.status,
                          result.start_date, result.end_date))]

\* edit_section, line 675: setattr of every key of the dialog's result
edit_section(self, section_index, result) ==
    [self EXCEPT !.sections[section_index] =
        [f \in DOMAIN @ |-> IF f \in DOMAIN result THEN result[f] ELSE @[f]]]

\* del lst[index]
DelAt(lst, index) == [i \in 1..(Len(lst) - 1) |-> IF i < index THEN lst[i] ELSE lst[i + 1]]

SetMax(S) == CHOOSE m \in S : \A x \in S : x <= m

SetMin(S) == CHOOSE m \in S : \A x \in S : m <= x

\* the deletions applied from the lowest index upwards
RECURSIVE DeleteAscending(_, _)
DeleteAscending(lst, selected) ==
    IF selected = {} THEN lst
    ELSE DeleteAscending(DelAt(lst, SetMin(selected)), selected \ {SetMin(selected)})

\* for index in sorted(selected, reverse=True): del lst[index]
RECURSIVE DeleteDescending(_, _)
DeleteDescending(lst, selected) ==
    IF selected = {} THEN lst
    ELSE DeleteDescending(DelAt(lst, SetMax(selected)), selected \ {SetMax(selected)})

\* delete_section, lines 700-701
delete_section(self, selected) ==
    [self EXCEPT !.sections = DeleteDescending(@, selected)]

\* EnrollmentDialog.update_person_options
people_options(self, selected_pa) ==
    {Label(self.people[i].v.name, self.people[i].k) :
        i \in {j \in DOMAIN self.people :
                 \/ selected_pa = T_AllProgramAreas
                 \/ self.people[j].v.program_area_name = selected_pa}}

\* EnrollmentDialog.add_enrollment, lines 1338-1343: what Add accepts
add_enrollment_accepts(self, person_str, role) ==
    /\ ~Falsy(person_str)
    /\ \E selected_pa \in pa_values(self) : person_str \in people_options(self, selected_pa)
    /\ ~Falsy(role) /\ role \in Keys(self.enrollment_roles)

\* EnrollmentDialog.add_enrollment, lines 1344-1347
add_enrollment(self, section_index, person_str, role, status) ==
    [self EXCEPT !.sections[section_index] =
        Section_add_enrollment(@, Enrollment(AfterLastParen(person_str), role, status))]

\* EnrollmentDialog.delete_enrollment, lines 1355-1356
delete_enrollment(self, section_index, selected) ==
    [self EXCEPT !.sections[section_index].enrollments = DeleteDescending(@, selected)]

----------------------------------------------------------------------------
(* CSV import of one entity kind *)

required_headers(item_name) ==
    CASE item_name = "Person" -> {"user_id", "name"}
      [] item_name = "Course" -> {"course_id_portion", "short_name", "long_name"}
      [] item_name = "Program Area" -> {"name"}
      [] item_name = "Term" -> {"name", "term_id", "short_code"}
      [] item_name = "Account" -> {"account_id"}

\* row.get(h): None when the file has no such column
RowGet(row, h) == FieldOr(row, h, None)

\* constructor(**args), args the row's columns among the constructor's parameters;
\* a parameter with a default takes it when the file has no such column
construct_from_row(item_name, row) ==
    constructors(item_name,
        [f \in fields_map(item_name) |-> IF f \in DOMAIN row THEN row[f] ELSE <<>>])

\* the loop of lines 267-279 without the `key in data_dict` test of line 269
RECURSIVE import_rows_nodup(_, _, _, _)
import_rows_nodup(data_dict, item_name, rows, n) ==
    IF n = 0 THEN [d |-> data_dict, added |-> 0, skipped |-> 0]
    ELSE LET before == import_rows_nodup(data_dict, item_name, rows, n - 1)
             row == rows[n]
             key == RowGet(row, key_field_map(item_name))
         IN  IF Falsy(key) \/ \E h \in required_headers(item_name) : Falsy(RowGet(row, h))
             THEN [before EXCEPT !.skipped = @ + 1]
             ELSE [d |-> Put(before.d, key, construct_from_row(item_name, row)),
                   added |-> before.added + 1,
                   skipped |-> before.skipped]

\* the loop of lines 268-279 filling a dictionary that starts out empty
RECURSIVE import_rows_fresh(_, _, _, _)
import_rows_fresh(data_dict, item_name, rows, n) ==
    IF n = 0 THEN [d |-> <<>>, added |-> 0, skipped |-> 0]
    ELSE LET before == import_rows_fresh(data_dict, item_name, rows, n - 1)
             row == rows[n]
             key == RowGet(row, key_field_map(item_name))
         IN  IF Falsy(key) \/ Has(before.d, key)
             THEN [before EXCEPT !.skipped = @ + 1]
             ELSE IF \E h \in required_headers(item_name) : Falsy(RowGet(row, h))
                  THEN [before EXCEPT !.skipped = @ + 1]
                  ELSE [d |-> Put(before.d, key, construct_from_row(item_name, row)),
                        added |-> before.added + 1,
                        skipped |-> before.skipped]

\* _import_csv_data, lines 268-279, over the first n rows
RECURSIVE import_rows(_, _, _, _)
import_rows(data_dict, item_name, rows, n) ==
    IF n = 0 THEN [d |-> data_dict, added |-> 0, skipped |-> 0]
    ELSE LET before == import_rows(data_dict, item_name, rows, n - 1)
             row == rows[n]
             key == RowGet(row, key_field_map(item_name))
         IN  IF Falsy(key) \/ Has(before.d, key)
             THEN [before EXCEPT !.skipped = @ + 1]
             ELSE IF \E h \in required_headers(item_name) : Falsy(RowGet(row, h))
                  THEN [before EXCEPT !.skipped = @ + 1]
                  ELSE [d |-> Put(before.d, key, construct_from_row(item_name, row)),
                        added |-> before.added + 1,
                        skipped |-> before.skipped]

\* _import_csv_data without the header test of lines 262-263
import_csv_data_noheaders(self, item_name, csv_headers, rows, read_ok) ==
    LET r == import_rows(self[data_map(item_name)], item_name, rows, read_ok)
    IN  [dm |-> [self EXCEPT ![data_map(item_name)] = r.d],
         msg |-> IF read_ok < Len(rows) THEN "IOFailure" ELSE "ok",
         added |-> r.added, skipped |-> r.skipped]

\* _import_csv_data on a file with the given header row and data rows; the read
\* raises after `read_ok` rows when read_ok < Len(rows)
import_csv_data(self, item_name, csv_headers, rows, read_ok) ==
    IF ~(required_headers(item_name) \subseteq csv_headers)
    THEN [dm |-> self, msg |-> "MissingHeaders", added |-> 0, skipped |-> 0]
    ELSE LET r == import_rows(self[data_map(item_name)], item_name, rows, read_ok)
         IN  [dm |-> [self EXCEPT ![data_map(item_name)] = r.d],
              msg |-> IF read_ok < Len(rows) THEN "IOFailure" ELSE "ok",
              added |-> r.added, skipped |-> r.skipped]

----------------------------------------------------------------------------
(* The handlers as steps of the program.  Every handler that changes the     *)
(* store ends with save_data, so DATA_FILE follows.                         *)

\* what `last` records
Ran(op, item, key, arg, msg) ==
    [op |-> op, item |-> item, key |-> key, arg |-> arg, msg |-> msg]

AddItem(item_name, result) ==
    /\ ManagementDialog_validate(dm, result)
    /\ LET r == add_item(dm, item_name, result)
           key == result[key_field_map(item_name)]
       IN  /\ dm' = r.dm
           /\ file' = IF r.msg = "ok" THEN save_data(r.dm) ELSE file
           /\ courseSrc' = IF item_name = "Course" /\ r.msg = "ok"
                           THEN Put(courseSrc, key, result["course_id_portion"])
                           ELSE courseSrc
           /\ last' = Ran("add_item", item_name, key, result, r.msg)
    /\ UNCHANGED disk

\* `key` is the row selected in the tree, `result` what the dialog returned
EditItem(item_name, key, result) ==
    /\ Has(dm[data_map(item_name)], key)
    /\ ManagementDialog_validate(dm, result)
    /\ LET r == edit_item(dm, item_name, key, result)
           new_key == result[key_field_map(item_name)]
       IN  /\ dm' = r.dm
           /\ file' = IF r.msg = "ok" THEN save_data(r.dm) ELSE file
           /\ courseSrc' = IF item_name = "Course" /\ r.msg = "ok"
                           THEN Put(Del(courseSrc, key), new_key,
                                    result["course_id_portion"])
                           ELSE courseSrc
           /\ last' = Ran("edit_item", item_name, key, result, r.msg)
    /\ UNCHANGED disk

DeleteItem(item_name, key, confirm) ==
    /\ Has(dm[data_map(item_name)], key)
    /\ LET r == delete_item(dm, item_name, key, confirm)
       IN  /\ dm' = r.dm
           /\ file' = IF r.msg = "ok" THEN save_data(r.dm) ELSE file
           /\ courseSrc' = IF item_name = "Course" /\ r.msg = "ok"
                           THEN Del(courseSrc, key) ELSE courseSrc
           /\ last' = Ran("delete_item", item_name, key, confirm, r.msg)
    /\ UNCHANGED disk

CreateSection(course_str, term_str, account_str, section_number, status, start_date, end_date) ==
    /\ SectionDialog_validate(dm, course_str, term_str, account_str, section_number)
    /\ LET result == SectionDialog_apply(course_str, term_str, account_str,
                                         section_number, status, start_date, end_date)
       IN  /\ dm' = create_section(dm, result)
           /\ file' = save_data(dm')
           /\ last' = Ran("create_section", "Section", <<>>, result, "ok")
    /\ UNCHANGED courseSrc
    /\ UNCHANGED disk

EditSection(section_index, course_str, term_str, account_str, section_number, status, start_date, end_date) ==
    /\ section_index \in DOMAIN dm.sections
    /\ SectionDialog_validate(dm, course_str, term_str, account_str, section_number)
    /\ LET result == SectionDialog_apply(course_str, term_str, account_str,
                                         section_number, status, start_date, end_date)
       IN  /\ dm' = edit_section(dm, section_index, result)
           /\ file' = save_data(dm')
           /\ last' = Ran("edit_section", "Section", <<section_index>>, result, "ok")
    /\ UNCHANGED courseSrc
    /\ UNCHANGED disk

DeleteSection(selected) ==
    /\ selected # {} /\ selected \subseteq DOMAIN dm.sections
    /\ dm' = delete_section(dm, selected)
    /\ file' = save_data(dm')
    /\ last' = Ran("delete_section", "Section", <<>>, selected, "ok")
    /\ UNCHANGED courseSrc
    /\ UNCHANGED disk

AddEnrollment(section_index, person_str, role, status) ==
    /\ section_index \in DOMAIN dm.sections
    /\ add_enrollment_accepts(dm, person_str, role)
    /\ dm' = add_enrollment(dm, section_index, person_str, role, status)
    /\ file' = save_data(dm')
    /\ last' = Ran("add_enrollment", "Enrollment", <<section_index>>,
                   AfterLastParen(person_str), "ok")
    /\ UNCHANGED courseSrc
    /\ UNCHANGED disk

DeleteEnrollment(section_index, selected) ==
    /\ section_index \in DOMAIN dm.sections
    /\ selected # {} /\ selected \subseteq DOMAIN dm.sections[section_index].enrollments
    /\ dm' = delete_enrollment(dm, section_index, selected)
    /\ file' = save_data(dm')
    /\ last' = Ran("delete_enrollment", "Enrollment", <<section_index>>, selected, "ok")
    /\ UNCHANGED courseSrc
    /\ UNCHANGED disk

\* open_import_dialog with one file chosen: the import, then save_data
ImportCsv(item_name, csv_headers, rows, read_ok) ==
    /\ read_ok \in 0..Len(rows)
    /\ LET r == import_csv_data(dm, item_name, csv_headers, rows, read_ok)
       IN  /\ dm' = r.dm
           /\ file' = save_data(r.dm)
           /\ courseSrc' =
                 IF item_name = "Course"
                 THEN [i \in DOMAIN r.dm.courses |->
                          IF Has(courseSrc, r.dm.courses[i].k)
                          THEN [k |-> r.dm.courses[i].k,
                                v |-> Get(courseSrc, r.dm.courses[i].k)]
                          ELSE [k |-> r.dm.courses[i].k, v |-> r.dm.courses[i].k]]
                 ELSE courseSrc
           /\ last' = Ran("import", item_name, <<>>,
                          [headers |-> csv_headers, rows |-> rows, read_ok |-> read_ok,
                           added |-> r.added, skipped |-> r.skipped], r.msg)
    /\ UNCHANGED disk

\* on_closing (save_data), then the program started again: DataManager.__init__
Restart ==
    LET saved == save_data(dm)
        r == load_data(Blank, saved)
    IN  /\ dm' = r.dm
        /\ file' = saved
        /\ courseSrc' = MapDict(saved.data.courses, LAMBDA c : c["course_id_portion"])
        /\ last' = Ran("restart", "", <<>>, <<>>, r.outcome)
        /\ UNCHANGED disk

\* the program started with DATA_FILE holding f: DataManager.__init__
StartWith(f) ==
    LET r == load_data(Blank, f)
    IN  /\ file' = f
        /\ dm' = r.dm
        /\ courseSrc' = IF f.kind = "json" /\ LoadRaisesAt(f.data) \notin {1, 2}
                        THEN MapDict(FieldOr(f.data, "courses", <<>>),
                                     LAMBDA c : c["course_id_portion"])
                        ELSE <<>>
        /\ last' = Ran("load", "", <<>>, <<>>, r.outcome)
        /\ UNCHANGED disk

----------------------------------------------------------------------------
(* Inputs.  A drive D names the texts the dialogs and files are filled with: *)
(* a record of sets, one per entry field.                                   *)

MaxSections == 2
MaxEnrollments == 2
MaxRows == 2
MaxItems == 2

\* what a ManagementDialog can return for an item name
DialogResults(D, item_name) ==
    CASE item_name = "Person" ->
            [user_id : D.user_id, name : D.person_name,
             program_area_name : D.program_area_name]
      [] item_name = "Course" ->
            [course_id_portion : D.course_id_portion, short_name : D.short_name,
             long_name : D.long_name, program_area_name : D.program_area_name]
      [] item_name = "Term" ->
            [name : D.term_name, term_id : D.term_id, short_code : D.short_code]
      [] item_name = "Account" -> [account_id : D.account_id]
      [] item_name = "Program Area" -> [name : D.pa_name]

\* sequences of at most n elements of S
SeqUpTo(S, n) == UNION {[1..m -> S] : m \in 0..n}

\* the key entry of the edit dialog is read-only: it holds the item's own key field
ReadonlyKey(item_name, key) ==
    to_dict(item_name, Get(dm[data_map(item_name)], key))[key_field_map(item_name)]

\* the program started with no DATA_FILE
Init ==
    /\ file = NoFile
    /\ dm = load_data(Blank, NoFile).dm
    /\ courseSrc = <<>>
    /\ last = Ran("init", "", <<>>, <<>>, "fresh")
    /\ disk = <<>>

AddItems(D) ==
    \E item_name \in D.items : \E result \in DialogResults(D, item_name) :
       /\ Len(dm[data_map(item_name)]) < MaxItems
       /\ AddItem(item_name, result)

EditItems(D) ==
    \E item_name \in D.items : \E key \in Keys(dm[data_map(item_name)]) :
       \E result \in DialogResults(D, item_name) :
          /\ result[key_field_map(item_name)] = ReadonlyKey(item_name, key)
          /\ EditItem(item_name, key, result)

\* edit_item driven with a dialog result whose key entry is not held read-only
EditItemsAnyKey(D) ==
    \E item_name \in D.items : \E key \in Keys(dm[data_map(item_name)]) :
       \E result \in DialogResults(D, item_name) : EditItem(item_name, key, result)

DeleteItems(D) ==
    \E item_name \in D.items : \E key \in Keys(dm[data_map(item_name)]) :
       \E confirm \in BOOLEAN : DeleteItem(item_name, key, confirm)

CreateSections(D) ==
    \E c \in course_options(dm, T_AllProgramAreas), t \in term_display(dm),
       a \in Keys(dm.accounts), n \in D.section_number, st \in D.section_status,
       d \in D.date :
       /\ Len(dm.sections) < MaxSections
       /\ CreateSection(c, t, a, n, st, d, d)

EditSections(D) ==
    \E i \in DOMAIN dm.sections :
       \E c \in course_options(dm, T_AllProgramAreas), t \in term_display(dm),
          a \in Keys(dm.accounts), n \in D.section_number, st \in D.section_status,
          d \in D.date :
          EditSection(i, c, t, a, n, st, d, d)

DeleteSections ==
    \E selected \in SUBSET (DOMAIN dm.sections) : DeleteSection(selected)

AddEnrollments(D) ==
    \E i \in DOMAIN dm.sections :
       \E p \in people_options(dm, T_AllProgramAreas), role \in D.role,
          st \in D.enrollment_status :
          /\ Len(dm.sections[i].enrollments) < MaxEnrollments
          /\ AddEnrollment(i, p, role, st)

DeleteEnrollments ==
    \E i \in DOMAIN dm.sections :
       \E selected \in SUBSET (DOMAIN dm.sections[i].enrollments) :
          DeleteEnrollment(i, selected)

ImportCsvs(D) ==
    \E item_name \in D.items :
       \E rows \in SeqUpTo(DialogResults(D, item_name), MaxRows) :
          ImportCsv(item_name, fields_map(item_name), rows, Len(rows))

----------------------------------------------------------------------------
(* SpecEnroll: People, a Course, a Term and an Account entered by hand,     *)
(* Sections created from them, Enrollments added and deleted                *)

DriveEnroll ==
    [items |-> {"Person", "Course", "Term", "Account"},
     user_id |-> {<<"u">>, <<"v">>}, person_name |-> {<<"n">>},
     program_area_name |-> {<<>>}, pa_name |-> {},
     course_id_portion |-> {<<"C">>},
     short_name |-> {<<"s">>}, long_name |-> {<<"l">>},
     term_name |-> {<<"F">>}, term_id |-> {<<"1">>}, short_code |-> {<<"f">>},
     account_id |-> {<<"7">>},
     section_number |-> {<<"0">>}, section_status |-> {T_active},
     date |-> {<<>>}, role |-> {T_Student}, enrollment_status |-> {T_active}]

NextEnroll ==
    \/ AddItems(DriveEnroll)
    \/ CreateSections(DriveEnroll)
    \/ AddEnrollments(DriveEnroll)
    \/ DeleteEnrollments

SpecEnroll == Init /\ [][NextEnroll]_vars

\* C1: after any sequence of add / delete enrollment operations, every Section's
\* enrollments list holds at most one Enrollment per user_id (a second add of the
\* same user_id being refused with DuplicateEnrollment)
C1_OneEnrollmentPerUser ==
    \A i \in DOMAIN dm.sections :
       \A j, k \in DOMAIN dm.sections[i].enrollments :
          dm.sections[i].enrollments[j].user_id = dm.sections[i].enrollments[k].user_id
             => j = k

----------------------------------------------------------------------------
(* SpecItems: the five kinds entered and deleted by hand, with Sections and  *)
(* Enrollments referring to them                                            *)

DriveItems ==
    [items |-> ItemNames,
     user_id |-> {<<"u">>}, person_name |-> {<<>>, <<"n">>},
     program_area_name |-> {<<>>, <<"P">>}, pa_name |-> {<<"P">>},
     course_id_portion |-> {<<"C">>},
     short_name |-> {<<"s">>}, long_name |-> {<<"l">>},
     term_name |-> {<<"F">>}, term_id |-> {<<"1">>}, short_code |-> {<<"f">>},
     account_id |-> {<<"7">>},
     section_number |-> {<<"0">>}, section_status |-> {T_active},
     date |-> {<<>>}, role |-> {T_Student}, enrollment_status |-> {T_active}]

NextItems ==
    \/ AddItems(DriveItems)
    \/ DeleteItems(DriveItems)
    \/ CreateSections(DriveItems)
    \/ AddEnrollments(DriveItems)

SpecItems == Init /\ [][NextItems]_vars

\* C2: for every entity kind, an add whose key already exists in the target
\* collection leaves the collection, the rest of the repository and DATA_FILE
\* unchanged, and (the record having no blank required field) fails with
\* DuplicateKey
C2_AddExistingKeyFails ==
    [][(last'.op = "add_item" /\ Has(dm[data_map(last'.item)], last'.key))
         => /\ dm' = dm
            /\ file' = file
            /\ (~AddBlankField(last'.arg)) => last'.msg = "DuplicateKey"]_vars

\* a Person added again under its user_id while a Section enrolls that Person
C2_Witness ==
    /\ last.op = "add_item" /\ last.item = "Person" /\ last.msg = "DuplicateKey"
    /\ \E i \in DOMAIN dm.sections : dm.sections[i].enrollments # <<>>

\* what the entity (kind, key) is referenced by, in the store `self`
C3_Referenced(self, kind, key) ==
    CASE kind = "Person" ->
            \E i \in DOMAIN self.sections :
               \E j \in DOMAIN self.sections[i].enrollments :
                  self.sections[i].enrollments[j].user_id = key
      [] kind = "Course" ->
            \E i \in DOMAIN self.sections : self.sections[i].course_id_portion = key
      [] kind = "Term" ->
            \E i \in DOMAIN self.sections : self.sections[i].term_name = key
      [] kind = "Account" ->
            \E i \in DOMAIN self.sections : self.sections[i].account_id = key
      [] kind = "Program Area" ->
            \/ \E i \in DOMAIN self.people : self.people[i].v.program_area_name = key
            \/ \E i \in DOMAIN self.courses : self.courses[i].v.program_area_name = key

\* C3: delete of a referenced entity is rejected with EntityInUse and changes
\* nothing; delete of an unreferenced one (the user confirming) removes exactly
\* that entry and changes nothing else
C3_DeleteIffUnreferenced ==
    [][last'.op = "delete_item"
         => LET coll == data_map(last'.item)
            IN  IF C3_Referenced(dm, last'.item, last'.key)
                THEN last'.msg = "EntityInUse" /\ dm' = dm /\ file' = file
                ELSE IF last'.arg
                     THEN /\ last'.msg = "ok"
                          /\ Keys(dm'[coll]) = Keys(dm[coll]) \ {last'.key}
                          /\ \A k \in Keys(dm'[coll]) : Get(dm'[coll], k) = Get(dm[coll], k)
                          /\ \A f \in DOMAIN dm \ {coll} : dm'[f] = dm[f]
                     ELSE dm' = dm /\ file' = file]_vars

\* the delete of a Person enrolled in a Section has been rejected
C3_Witness ==
    /\ last.op = "delete_item" /\ last.item = "Person" /\ last.msg = "EntityInUse"
    /\ C3_Referenced(dm, "Person", last.key)

----------------------------------------------------------------------------
(* SpecEditTerm: Terms entered and edited, the dialog's key entry writable,  *)
(* with Sections naming them                                                *)

DriveEditTerm ==
    [items |-> {"Term", "Course", "Account"},
     user_id |-> {}, person_name |-> {},
     program_area_name |-> {<<>>}, pa_name |-> {},
     course_id_portion |-> {<<"C">>},
     short_name |-> {<<"s">>}, long_name |-> {<<"l">>},
     term_name |-> {<<"F">>, <<"G">>, <<"H">>}, term_id |-> {<<"1">>},
     short_code |-> {<<"f">>},
     account_id |-> {<<"7">>},
     section_number |-> {<<"0">>}, section_status |-> {T_active},
     date |-> {<<>>}, role |-> {}, enrollment_status |-> {}]

NextEditTerm ==
    \/ AddItems(DriveEditTerm)
    \/ EditItemsAnyKey(DriveEditTerm)
    \/ CreateSections(DriveEditTerm)

SpecEditTerm == Init /\ [][NextEditTerm]_vars

\* C4: the edit of Term A into a record named B, B unused, sets term_name to B in
\* every Section that named A and changes no other Section; the Term is then
\* stored under B and nothing is stored under A
C4_TermRenameCascades ==
    [][(/\ last'.op = "edit_item" /\ last'.item = "Term"
        /\ last'.arg.name # last'.key
        /\ ~Has(dm.terms, last'.arg.name)
        /\ \A f \in DOMAIN last'.arg : ~Falsy(last'.arg[f]))
         => LET A == last'.key
                B == last'.arg.name
            IN  /\ last'.msg = "ok"
                /\ DOMAIN dm'.sections = DOMAIN dm.sections
                /\ \A i \in DOMAIN dm.sections :
                      dm'.sections[i] =
                         IF dm.sections[i].term_name = A
                         THEN [dm.sections[i] EXCEPT !.term_name = B]
                         ELSE dm.sections[i]
                /\ Has(dm'.terms, B) /\ ~Has(dm'.terms, A)
                /\ Get(dm'.terms, B) = last'.arg
                /\ Keys(dm'.terms) = (Keys(dm.terms) \ {A}) \cup {B}]_vars

\* a Term has been renamed while one Section named it and another Section named
\* a different Term
C4_Witness ==
    /\ last.op = "edit_item" /\ last.item = "Term" /\ last.msg = "ok"
    /\ last.arg.name # last.key
    /\ \E i, j \in DOMAIN dm.sections :
          /\ dm.sections[i].term_name = last.arg.name
          /\ dm.sections[j].term_name \notin {last.arg.name, last.key}

----------------------------------------------------------------------------
(* SpecEditPA: Program Areas entered and edited, the dialog's key entry      *)
(* writable, with People and Courses assigned to them                       *)

DriveEditPA ==
    [items |-> {"Program Area", "Person", "Course"},
     user_id |-> {<<"u">>}, person_name |-> {<<"n">>},
     program_area_name |-> {<<>>, <<"P">>, <<"Q">>},
     pa_name |-> {<<"P">>, <<"Q">>, <<"R">>},
     course_id_portion |-> {<<"C">>},
     short_name |-> {<<"s">>}, long_name |-> {<<"l">>},
     term_name |-> {}, term_id |-> {}, short_code |-> {},
     account_id |-> {},
     section_number |-> {}, section_status |-> {},
     date |-> {}, role |-> {}, enrollment_status |-> {}]

NextEditPA ==
    \/ AddItems(DriveEditPA)
    \/ EditItemsAnyKey(DriveEditPA)

SpecEditPA == Init /\ [][NextEditPA]_vars

\* the entries of dictionary d with program_area_name A rewritten to B
C5_Cascaded(d, A, B) ==
    [i \in DOMAIN d |->
        IF d[i].v.program_area_name = A
        THEN [d[i] EXCEPT !.v.program_area_name = B]
        ELSE d[i]]

\* C5: the edit of ProgramArea A into a record named B, B unused, sets
\* program_area_name to B in every Person and Course that stored A, in the same
\* step that stores the ProgramArea under B, and leaves every other Person and
\* Course as it was
C5_ProgramAreaRenameCascades ==
    [][(/\ last'.op = "edit_item" /\ last'.item = "Program Area"
        /\ last'.arg.name # last'.key
        /\ ~Has(dm.program_areas, last'.arg.name)
        /\ ~Falsy(last'.arg.name))
         => LET A == last'.key
                B == last'.arg.name
            IN  /\ last'.msg = "ok"
                /\ dm'.people = C5_Cascaded(dm.people, A, B)
                /\ dm'.courses = C5_Cascaded(dm.courses, A, B)
                /\ Has(dm'.program_areas, B) /\ ~Has(dm'.program_areas, A)]_vars

\* a ProgramArea has been renamed while a Person stored it and a Course stored
\* another one
C5_Witness ==
    /\ last.op = "edit_item" /\ last.item = "Program Area" /\ last.msg = "ok"
    /\ last.arg.name # last.key
    /\ \E i \in DOMAIN dm.people : dm.people[i].v.program_area_name = last.arg.name
    /\ \E i \in DOMAIN dm.courses :
          /\ ~Falsy(dm.courses[i].v.program_area_name)
          /\ dm.courses[i].v.program_area_name \notin {last.arg.name, last.key}

----------------------------------------------------------------------------
(* SpecEditDup: two keys of each renamable kind, edited with the dialog's    *)
(* key entry writable, with Sections, People and Courses referring to them  *)

DriveEditDup ==
    [items |-> ItemNames,
     user_id |-> {<<"u">>}, person_name |-> {<<"n">>},
     program_area_name |-> {<<"P">>},
     pa_name |-> {<<"P">>, <<"Q">>},
     course_id_portion |-> {<<"C">>},
     short_name |-> {<<"s">>}, long_name |-> {<<"l">>},
     term_name |-> {<<"F">>, <<"G">>}, term_id |-> {<<"1">>},
     short_code |-> {<<"f">>},
     account_id |-> {<<"7">>},
     section_number |-> {<<"0">>}, section_status |-> {T_active},
     date |-> {<<>>}, role |-> {}, enrollment_status |-> {}]

NextEditDup ==
    \/ AddItems(DriveEditDup)
    \/ EditItemsAnyKey(DriveEditDup)
    \/ CreateSections(DriveEditDup)

SpecEditDup == Init /\ [][NextEditDup]_vars

\* C6: an edit whose record carries a key other than the edited one and already
\* in the collection changes nothing (no Section, Person or Course is rewritten,
\* the old entry stays, the entry under the new key is not replaced, DATA_FILE is
\* not written) and, the record having no blank required field, fails with
\* DuplicateKey
C6_EditOntoExistingKeyFails ==
    [][(/\ last'.op = "edit_item"
        /\ last'.arg[key_field_map(last'.item)] # last'.key
        /\ Has(dm[data_map(last'.item)], last'.arg[key_field_map(last'.item)]))
         => /\ dm' = dm
            /\ file' = file
            /\ (~EditBlankField(last'.item, last'.arg)) => last'.msg = "DuplicateKey"]_vars

\* the edit of a Term onto another Term's name has been refused while a Section
\* names the edited Term
C6_Witness ==
    /\ last.op = "edit_item" /\ last.item = "Term" /\ last.msg = "DuplicateKey"
    /\ Has(dm.terms, last.key) /\ Has(dm.terms, last.arg.name)
    /\ \E i \in DOMAIN dm.sections : dm.sections[i].term_name = last.key

----------------------------------------------------------------------------
(* SpecCourses: Courses entered, edited, deleted, imported and loaded        *)

\* DATA_FILE documents holding Courses, written by hand
CourseDocs ==
    {JsonFile([courses |->
        <<[k |-> k, v |-> [short_name |-> <<"s">>, long_name |-> <<"l">>,
                           course_id_portion |-> c]]>>]) :
        k \in {<<"c">>, <<"C">>}, c \in {<<"c">>, <<"C">>}}

DriveCourses ==
    [items |-> {"Course"},
     user_id |-> {}, person_name |-> {},
     program_area_name |-> {<<>>}, pa_name |-> {},
     course_id_portion |-> {<<"c">>, <<"C">>, <<"d">>},
     short_name |-> {<<"s">>}, long_name |-> {<<"l">>},
     term_name |-> {}, term_id |-> {}, short_code |-> {},
     account_id |-> {},
     section_number |-> {}, section_status |-> {},
     date |-> {}, role |-> {}, enrollment_status |-> {}]

StartWithCourses == \E f \in CourseDocs : StartWith(f)

NextCourses ==
    \/ AddItems(DriveCourses)
    \/ EditItems(DriveCourses)
    \/ DeleteItems(DriveCourses)
    \/ ImportCsvs(DriveCourses)
    \/ Restart
    \/ StartWithCourses

SpecCourses == Init /\ [][NextCourses]_vars

\* C7: every stored Course's course_id_portion is the upper-cased form of the
\* text it was last given by an add, an edit, a CSV row or a loaded document
C7_CourseIdUpperCased ==
    /\ Keys(courseSrc) = Keys(dm.courses)
    /\ \A k \in Keys(dm.courses) :
          Get(dm.courses, k).course_id_portion = Upper(Get(courseSrc, k))

\* a Course is stored whose identifier was given in lower case
C7_Witness ==
    \E k \in Keys(dm.courses) :
       /\ Get(courseSrc, k) # Upper(Get(courseSrc, k))
       /\ Get(dm.courses, k).course_id_portion = Upper(Get(courseSrc, k))

----------------------------------------------------------------------------
(* SpecRoundTrip: Terms, a Course and an Account entered by hand, Sections   *)
(* created from them, the program closed and started again                  *)

DriveRoundTrip ==
    [items |-> {"Term", "Course", "Account"},
     user_id |-> {}, person_name |-> {},
     program_area_name |-> {<<>>}, pa_name |-> {},
     course_id_portion |-> {<<"C">>},
     short_name |-> {<<"s">>}, long_name |-> {<<"l">>},
     term_name |-> {<<"A">>, <<"B">>},
     term_id |-> {<<"1">>, <<" ", "(">>, <<"A", " ", "(">>},
     short_code |-> {<<"f">>},
     account_id |-> {<<"7">>},
     section_number |-> {<<"0">>}, section_status |-> {T_active},
     date |-> {<<>>}, role |-> {}, enrollment_status |-> {}]

NextRoundTrip ==
    \/ AddItems(DriveRoundTrip)
    \/ CreateSections(DriveRoundTrip)
    \/ Restart

SpecRoundTrip == Init /\ [][NextRoundTrip]_vars

\* C8: save followed by load reproduces the repository: the five collections,
\* the role map and the Section list with its Enrollments are what they were
C8_SaveLoadRoundTrip ==
    [][last'.op = "restart" => dm' = dm]_vars

----------------------------------------------------------------------------
(* SpecLoad: the program started on DATA_FILE documents written by hand      *)

T_2251 == <<"2","2","5","1">>
T_Spring2025 == <<"S","p","r","i","n","g"," ","2","0","2","5">>

PeopleDocs ==
    { <<>>,
      <<[k |-> <<"u">>, v |-> [name |-> <<"n">>, user_id |-> <<"u">>]]>>,
      <<[k |-> <<"u">>, v |-> [user_id |-> <<"u">>]]>> }

CoursesDocs ==
    { <<>>,
      <<[k |-> <<"c">>, v |-> [short_name |-> <<"s">>, long_name |-> <<"l">>,
                               course_id_portion |-> <<"c">>]]>>,
      <<[k |-> <<"c">>, v |-> [short_name |-> <<"s">>, long_name |-> <<"l">>]]>> }

TermsDocs ==
    { <<>>,
      <<[k |-> T_2251, v |-> [term_id |-> T_2251, name |-> T_Spring2025,
                              short_code |-> <<"f">>]]>>,
      <<[k |-> T_2251, v |-> [term_id |-> T_2251, short_code |-> <<"f">>]]>> }

AccountsDocs ==
    { <<>>, <<[k |-> <<"7">>, v |-> [account_id |-> <<"7">>]]>> }

SectionDocs ==
    { [course_id_portion |-> <<"C">>, term_id |-> T_2251, account_id |-> <<"7">>,
       section_number |-> <<"0">>],
      [course_id_portion |-> <<"C">>, term_name |-> T_Spring2025,
       account_id |-> <<"7">>, section_number |-> <<"0">>],
      [course_id_portion |-> <<"C">>, term_name |-> T_2251, account_id |-> <<"7">>,
       section_number |-> <<"0">>],
      [course_id_portion |-> <<"C">>, term_name |-> T_Spring2025,
       account_id |-> <<"7">>] }

MaxDocSections == 1

\* the documents SpecLoad starts the program on
LoadDocs ==
    {NoFile, Corrupt} \cup
    {JsonFile(Only(K, [people |-> p, courses |-> c, terms |-> t, accounts |-> a,
                       sections |-> s])) :
        K \in {{"people", "courses", "terms", "accounts", "sections"},
               {"terms", "sections"}},
        p \in PeopleDocs, c \in CoursesDocs, t \in TermsDocs, a \in AccountsDocs,
        s \in SeqUpTo(SectionDocs, MaxDocSections)}

StartWithDocs == \E f \in LoadDocs : StartWith(f)

NextLoad == StartWithDocs

SpecLoad == Init /\ [][NextLoad]_vars

\* the Sections of the document in DATA_FILE
C9_DocSections == FieldOr(file.data, "sections", <<>>)

\* the Terms of the document in DATA_FILE
C9_DocTerms == FieldOr(file.data, "terms", <<>>)

\* C9: after the load of a document, every Section record that carries a legacy
\* term_id and no term_name, a Term record of the document having that term_id,
\* is loaded with term_name equal to that Term's name
C9_LegacyTermIdResolved ==
    (last.op = "load" /\ last.msg = "loaded")
       => \A i \in DOMAIN C9_DocSections :
             ("term_id" \in DOMAIN C9_DocSections[i]
                 /\ "term_name" \notin DOMAIN C9_DocSections[i])
                => \A j \in DOMAIN C9_DocTerms :
                      (/\ "name" \in DOMAIN C9_DocTerms[j].v
                       /\ FieldOr(C9_DocTerms[j].v, "term_id", <<>>) =
                             C9_DocSections[i]["term_id"])
                         => dm.sections[i].term_name = C9_DocTerms[j].v["name"]

\* C10: a load that fails (DATA_FILE not parseable, or a record of the document
\* missing a mandatory field) raises nothing to its caller and leaves the
\* empty-initialized repository
C10_FailedLoadFallsBack ==
    (last.op = "load"
       /\ (file.kind = "corrupt" \/ (file.kind = "json" /\ LoadRaisesAt(file.data) # 0)))
       => last.msg = "fallback" /\ dm = initialize_empty

----------------------------------------------------------------------------
(* SpecImport: People u and v entered by hand, and People imported from CSV  *)
(* files naming u whose header row, rows and readability vary               *)

\* the rows a file with the header row H may hold: at most one cell left blank
FileRows(D, item_name, H) ==
    {row \in {Only(H, r) : r \in DialogResults(D, item_name)} :
        Cardinality({h \in H : row[h] = <<>>}) <= 1}

\* open_import_dialog with one file chosen, the file's header row any subset of
\* the kind's required columns, the read failing after any number of rows
ImportFiles(D) ==
    \E item_name \in D.items : \E H \in SUBSET required_headers(item_name) :
       \E rows \in SeqUpTo(FileRows(D, item_name, H), MaxRows) :
          \E read_ok \in 0..Len(rows) : ImportCsv(item_name, H, rows, read_ok)

\* the People entered by hand
DriveImportHand ==
    [items |-> {"Person"},
     user_id |-> {<<"u">>, <<"v">>}, person_name |-> {<<"n">>},
     program_area_name |-> {<<>>}, pa_name |-> {},
     course_id_portion |-> {},
     short_name |-> {}, long_name |-> {},
     term_name |-> {}, term_id |-> {}, short_code |-> {},
     account_id |-> {},
     section_number |-> {}, section_status |-> {},
     date |-> {}, role |-> {}, enrollment_status |-> {}]

\* the cells of the files
DriveImport ==
    [items |-> {"Person"},
     user_id |-> {<<>>, <<"u">>}, person_name |-> {<<>>, <<"n">>},
     program_area_name |-> {<<>>}, pa_name |-> {},
     course_id_portion |-> {},
     short_name |-> {}, long_name |-> {},
     term_name |-> {}, term_id |-> {}, short_code |-> {},
     account_id |-> {},
     section_number |-> {}, section_status |-> {},
     date |-> {}, role |-> {}, enrollment_status |-> {}]

NextImport ==
    \/ AddItems(DriveImportHand)
    \/ ImportFiles(DriveImport)

SpecImport == Init /\ [][NextImport]_vars

\* row n of the file carries its key and every required field
C11_Valid(item, rows, n) ==
    /\ ~Falsy(RowGet(rows[n], key_field_map(item)))
    /\ \A h \in required_headers(item) : ~Falsy(RowGet(rows[n], h))

\* row n is to be added to the collection `coll`: it is valid, its key is not in
\* the collection and no earlier valid row of the file carries that key
C11_Added(coll, item, rows, n) ==
    /\ C11_Valid(item, rows, n)
    /\ ~Has(coll, RowGet(rows[n], key_field_map(item)))
    /\ \A m \in 1..(n - 1) :
          ~(/\ C11_Valid(item, rows, m)
            /\ RowGet(rows[m], key_field_map(item)) = RowGet(rows[n], key_field_map(item)))

\* C11: an import whose header row is valid and whose file is read to its end
\* adds exactly the rows that carry a key and every required field and whose key
\* is neither in the collection nor added by an earlier row; every other row is
\* skipped, and added + skipped is the number of rows
C11_RowsAddedOrSkipped ==
    [][(last'.op = "import" /\ last'.msg = "ok")
         => LET item == last'.item
                rows == last'.arg.rows
                coll == data_map(item)
                kf == key_field_map(item)
                addedRows == {n \in DOMAIN rows : C11_Added(dm[coll], item, rows, n)}
            IN  /\ last'.arg.added = Cardinality(addedRows)
                /\ last'.arg.skipped = Len(rows) - Cardinality(addedRows)
                /\ last'.arg.added + last'.arg.skipped = Len(rows)
                /\ Keys(dm'[coll]) =
                      Keys(dm[coll]) \cup {RowGet(rows[n], kf) : n \in addedRows}
                /\ \A k \in Keys(dm[coll]) : Get(dm'[coll], k) = Get(dm[coll], k)
                /\ \A n \in addedRows :
                      /\ Get(dm'[coll], rows[n][kf]).user_id = rows[n]["user_id"]
                      /\ Get(dm'[coll], rows[n][kf]).name = rows[n]["name"]]_vars

\* a file of two rows has been imported: one added, the other skipped because it
\* repeats the key of the first
C11_Witness ==
    /\ last.op = "import" /\ last.msg = "ok"
    /\ Len(last.arg.rows) = 2
    /\ C11_Valid(last.item, last.arg.rows, 1) /\ C11_Valid(last.item, last.arg.rows, 2)
    /\ last.arg.rows[1]["user_id"] = last.arg.rows[2]["user_id"]
    /\ last.arg.added = 1 /\ last.arg.skipped = 1

\* C12: an import whose header row lacks a required header fails with
\* MissingHeaders, processes no row and leaves the repository as it was
C12_MissingHeadersRejected ==
    [][(last'.op = "import" /\ ~(required_headers(last'.item) \subseteq last'.arg.headers))
         => /\ last'.msg = "MissingHeaders"
            /\ last'.arg.added = 0 /\ last'.arg.skipped = 0
            /\ dm' = dm]_vars

\* a file without the name column, holding a row with a new user_id, has been
\* refused while People are stored
C12_Witness ==
    /\ last.op = "import" /\ last.msg = "MissingHeaders"
    /\ "user_id" \in last.arg.headers /\ "name" \notin last.arg.headers
    /\ dm.people # <<>>
    /\ \E n \in DOMAIN last.arg.rows :
          /\ ~Falsy(last.arg.rows[n]["user_id"])
          /\ ~Has(dm.people, last.arg.rows[n]["user_id"])

\* C13: an import that ends with an error, the read having failed after some
\* rows, leaves the repository as it was
C13_FailedImportChangesNothing ==
    [][(last'.op = "import" /\ last'.msg = "IOFailure") => dm' = dm]_vars

----------------------------------------------------------------------------
(* Enrollment roles: the Roles tab and the role import                       *)

\* App.add_role on the dialog result (display_name, canvas_role)
add_role(self, display_name, canvas_role) ==
    IF Falsy(display_name) \/ Falsy(canvas_role)
    THEN [dm |-> self, msg |-> "Both fields are required.", saved |-> FALSE]
    ELSE IF Has(self.enrollment_roles, display_name)
    THEN [dm |-> self, msg |-> "A role with this display name already exists.",
          saved |-> FALSE]
    ELSE [dm |-> [self EXCEPT !.enrollment_roles = Put(@, display_name, canvas_role)],
          msg |-> "ok", saved |-> TRUE]

\* App.edit_role on the selected role and the dialog's canvas_role
edit_role(self, display_name, canvas_role) ==
    [dm |-> [self EXCEPT !.enrollment_roles = Put(@, display_name, canvas_role)],
     msg |-> "ok", saved |-> TRUE]

\* App.delete_role on the selected role and the answer to askyesno
delete_role(self, display_name, confirm) ==
    IF confirm
    THEN [dm |-> [self EXCEPT !.enrollment_roles = Del(@, display_name)],
          msg |-> "ok", saved |-> TRUE]
    ELSE [dm |-> self, msg |-> "cancelled", saved |-> FALSE]

\* the loop of import_roles_from_csv in which a display name that is already a
\* key keeps its value
RECURSIVE import_role_rows_keepfirst(_, _, _)
import_role_rows_keepfirst(roles, rows, n) ==
    IF n = 0 THEN [d |-> roles, added |-> 0, updated |-> 0]
    ELSE LET before == import_role_rows_keepfirst(roles, rows, n - 1)
             display_name == RowGet(rows[n], "display_name")
             canvas_role == RowGet(rows[n], "canvas_role")
         IN  IF ~Falsy(display_name) /\ ~Falsy(canvas_role)
             THEN IF Has(before.d, display_name)
                  THEN [before EXCEPT !.updated = @ + 1]
                  ELSE [d |-> Put(before.d, display_name, canvas_role),
                        added |-> before.added + 1, updated |-> before.updated]
             ELSE before

\* import_roles_from_csv, lines 308-316, over the first n rows
RECURSIVE import_role_rows(_, _, _)
import_role_rows(roles, rows, n) ==
    IF n = 0 THEN [d |-> roles, added |-> 0, updated |-> 0]
    ELSE LET before == import_role_rows(roles, rows, n - 1)
             display_name == RowGet(rows[n], "display_name")
             canvas_role == RowGet(rows[n], "canvas_role")
         IN  IF ~Falsy(display_name) /\ ~Falsy(canvas_role)
             THEN [d |-> Put(before.d, display_name, canvas_role),
                   added |-> IF Has(before.d, display_name)
                             THEN before.added ELSE before.added + 1,
                   updated |-> IF Has(before.d, display_name)
                               THEN before.updated + 1 ELSE before.updated]
             ELSE before

\* import_roles_from_csv on a file with the given header row and data rows; the
\* read fails after read_ok rows when read_ok < Len(rows)
import_roles_from_csv(self, csv_headers, rows, read_ok) ==
    IF ~({"display_name", "canvas_role"} \subseteq csv_headers)
    THEN [dm |-> self, msg |-> "MissingHeaders", added |-> 0, updated |-> 0,
          saved |-> FALSE]
    ELSE LET r == import_role_rows(self.enrollment_roles, rows, read_ok)
         IN  [dm |-> [self EXCEPT !.enrollment_roles = r.d],
              msg |-> IF read_ok < Len(rows) THEN "IOFailure" ELSE "ok",
              added |-> r.added, updated |-> r.updated,
              saved |-> read_ok = Len(rows)]

\* a Roles-tab handler has run with the outcome r
RoleStep(op, key, arg, r) ==
    /\ dm' = r.dm
    /\ file' = IF r.saved THEN save_data(r.dm) ELSE file
    /\ last' = Ran(op, "Role", key, arg, r.msg)
    /\ UNCHANGED <<courseSrc, disk>>

AddRole(display_name, canvas_role) ==
    RoleStep("add_role", display_name, canvas_role,
             add_role(dm, display_name, canvas_role))

EditRole(display_name, canvas_role) ==
    /\ Has(dm.enrollment_roles, display_name)
    /\ RoleStep("edit_role", display_name, canvas_role,
                edit_role(dm, display_name, canvas_role))

DeleteRole(display_name, confirm) ==
    /\ Has(dm.enrollment_roles, display_name)
    /\ RoleStep("delete_role", display_name, confirm,
                delete_role(dm, display_name, confirm))

\* App.import_roles with a file chosen
ImportRoles(csv_headers, rows, read_ok) ==
    LET r == import_roles_from_csv(dm, csv_headers, rows, read_ok)
    IN  RoleStep("import_roles", <<>>,
                 [headers |-> csv_headers, rows |-> rows, read_ok |-> read_ok,
                  added |-> r.added, updated |-> r.updated], r)

----------------------------------------------------------------------------
(* SpecRoles: roles entered by hand and imported from CSV files              *)

\* the texts typed as display name and as Canvas role value
RoleNames == {<<>>, <<"x">>}
CanvasRoles == {<<>>, <<"a">>, <<"b">>}

\* the rows a roles file with the header row H may hold: at most one cell blank
RoleFileRows(H) ==
    {row \in {Only(H, r) : r \in [display_name : RoleNames, canvas_role : CanvasRoles]} :
        Cardinality({h \in H : row[h] = <<>>}) <= 1}

\* App.import_roles with a file chosen, its header row any subset of the two
\* columns, the file read to its end
ImportRoleFiles ==
    \E H \in SUBSET {"display_name", "canvas_role"} :
       \E rows \in SeqUpTo(RoleFileRows(H), MaxRows) :
          ImportRoles(H, rows, Len(rows))

AddRoles == \E n \in RoleNames, c \in CanvasRoles : AddRole(n, c)
EditRoles == \E n \in RoleNames, c \in CanvasRoles : EditRole(n, c)
DeleteRoles == \E n \in RoleNames, confirm \in BOOLEAN : DeleteRole(n, confirm)

NextRoles ==
    \/ AddRoles
    \/ EditRoles
    \/ DeleteRoles
    \/ ImportRoleFiles

SpecRoles == Init /\ [][NextRoles]_vars

\* row n of a roles file carries a display name and a Canvas role
C14_Good(rows, n) ==
    /\ ~Falsy(RowGet(rows[n], "display_name"))
    /\ ~Falsy(RowGet(rows[n], "canvas_role"))

\* the last row of the file that carries the display name k and a Canvas role
C14_LastRow(rows, k) ==
    CHOOSE n \in DOMAIN rows :
       /\ C14_Good(rows, n) /\ rows[n]["display_name"] = k
       /\ \A m \in DOMAIN rows :
             (C14_Good(rows, m) /\ rows[m]["display_name"] = k) => m <= n

\* C14: a role import read to its end upserts every row whose display_name and
\* canvas_role are non-empty: the name maps to the canvas_role of its last such
\* row, a row counts as added when its name is not yet a key at that moment and
\* as updated otherwise, every other role is kept, and the import itself saves
C14_RoleImportUpserts ==
    [][(last'.op = "import_roles" /\ last'.msg = "ok")
         => LET rows == last'.arg.rows
                good == {n \in DOMAIN rows : C14_Good(rows, n)}
                names == {rows[n]["display_name"] : n \in good}
                old == dm.enrollment_roles
                new == dm'.enrollment_roles
            IN  /\ Keys(new) = Keys(old) \cup names
                /\ \A k \in names : Get(new, k) = rows[C14_LastRow(rows, k)]["canvas_role"]
                /\ \A k \in Keys(old) \ names : Get(new, k) = Get(old, k)
                /\ last'.arg.added = Cardinality(names \ Keys(old))
                /\ last'.arg.updated = Cardinality(good) - Cardinality(names \ Keys(old))
                /\ dm' = [dm EXCEPT !.enrollment_roles = new]
                /\ file' = save_data(dm')]_vars

\* a file of two rows naming the same new role has been imported: the first row
\* added it, the second updated it to another Canvas role
C14_Witness ==
    /\ last.op = "import_roles" /\ last.msg = "ok"
    /\ Len(last.arg.rows) = 2
    /\ C14_Good(last.arg.rows, 1) /\ C14_Good(last.arg.rows, 2)
    /\ last.arg.rows[1]["display_name"] = last.arg.rows[2]["display_name"]
    /\ last.arg.rows[1]["canvas_role"] # last.arg.rows[2]["canvas_role"]
    /\ last.arg.added = 1 /\ last.arg.updated = 1
    /\ Get(dm.enrollment_roles, last.arg.rows[2]["display_name"])
          = last.arg.rows[2]["canvas_role"]

----------------------------------------------------------------------------
(* Canvas generation: courses.csv, sections.csv and enrollments.csv          *)

\* str(v) inside an f-string
FStr(v) == IF v = None THEN <<"N","o","n","e">> ELSE v

\* the cell csv.DictWriter writes for a value: None is written as the empty text
Cell(v) == IF v = None THEN <<>> ELSE v

\* f"{stem}.csv"
FileName(stem) ==
    (CASE stem = "courses" -> <<"c","o","u","r","s","e","s">>
       [] stem = "sections" -> <<"s","e","c","t","i","o","n","s">>
       [] stem = "enrollments" -> <<"e","n","r","o","l","l","m","e","n","t","s">>
       [] stem = "people" -> <<"p","e","o","p","l","e">>
       [] stem = "terms" -> <<"t","e","r","m","s">>
       [] stem = "accounts" -> <<"a","c","c","o","u","n","t","s">>
       [] stem = "program_areas" -> <<"p","r","o","g","r","a","m","_","a","r","e","a","s">>)
    \o <<".","c","s","v">>

\* lines 351-354: the Section's Course and Term are both found
Resolves(self, section) ==
    /\ Has(self.courses, section.course_id_portion)
    /\ Has(self.terms, section.term_name)

\* line 355
gen_course_id(self, section) ==
    FStr(section.course_id_portion) \o <<"-">>
        \o FStr(Get(self.terms, section.term_name).short_code) \o <<"-">>
        \o FStr(section.section_number)

\* line 356
gen_section_id(self, section) ==
    FStr(Get(self.terms, section.term_name).short_code) \o <<"-">>
        \o FStr(section.course_id_portion) \o <<"-">>
        \o FStr(section.section_number)

\* the Course's long_name without the section number
long_name_plain(self, section) ==
    FStr(Get(self.courses, section.course_id_portion).long_name)

\* line 357
long_name_with_section(self, section) ==
    FStr(Get(self.courses, section.course_id_portion).long_name) \o <<"-">>
        \o FStr(section.section_number)

\* lines 360-363: the row appended to courses_data, as written
courses_row(self, section) ==
    [course_id |-> gen_course_id(self, section),
     short_name |-> Cell(Get(self.courses, section.course_id_portion).short_name),
     long_name |-> long_name_with_section(self, section),
     account_id |-> Cell(section.account_id),
     term_id |-> Cell(Get(self.terms, section.term_name).term_id),
     status |-> Cell(section.status),
     start_date |-> Cell(section.start_date),
     end_date |-> Cell(section.end_date)]

\* lines 364-366: the row appended to sections_data, as written
sections_row(self, section) ==
    [section_id |-> gen_section_id(self, section),
     course_id |-> gen_course_id(self, section),
     name |-> long_name_with_section(self, section),
     status |-> Cell(section.status),
     start_date |-> Cell(section.start_date),
     end_date |-> Cell(section.end_date)]

\* line 368 with the role taken as it stands on the Enrollment
export_role_unmapped(self, role) == role

\* line 368: self.enrollment_roles.get(enrollment.role, enrollment.role)
export_role(self, role) ==
    IF Has(self.enrollment_roles, role) THEN Get(self.enrollment_roles, role) ELSE role

\* lines 367-371: the rows appended to enrollment_data for one Section, as written
enrollment_rows(self, section) ==
    [i \in DOMAIN section.enrollments |->
        [course_id |-> gen_course_id(self, section),
         section_id |-> gen_section_id(self, section),
         user_id |-> Cell(section.enrollments[i].user_id),
         role |-> Cell(export_role(self, section.enrollments[i].role)),
         status |-> Cell(section.enrollments[i].status)]]

\* the loop of lines 350-371 in which a Section whose Course or Term is not
\* found still has its Enrollments written
RECURSIVE gen_rows_noskip(_, _)
gen_rows_noskip(self, n) ==
    IF n = 0 THEN [courses |-> <<>>, sections |-> <<>>, enrollments |-> <<>>]
    ELSE LET before == gen_rows_noskip(self, n - 1)
             section == self.sections[n]
         IN  IF ~Resolves(self, section)
             THEN [before EXCEPT !.enrollments = @ \o
                      [i \in DOMAIN section.enrollments |->
                          [course_id |-> <<>>, section_id |-> <<>>,
                           user_id |-> Cell(section.enrollments[i].user_id),
                           role |-> Cell(export_role(self, section.enrollments[i].role)),
                           status |-> Cell(section.enrollments[i].status)]]]
             ELSE [courses |-> Append(before.courses, courses_row(self, section)),
                   sections |-> Append(before.sections, sections_row(self, section)),
                   enrollments |-> before.enrollments \o enrollment_rows(self, section)]

\* the loop of lines 350-371 over the first n Sections
RECURSIVE gen_rows(_, _)
gen_rows(self, n) ==
    IF n = 0 THEN [courses |-> <<>>, sections |-> <<>>, enrollments |-> <<>>]
    ELSE LET before == gen_rows(self, n - 1)
             section == self.sections[n]
         IN  IF ~Resolves(self, section) THEN before
             ELSE [courses |-> Append(before.courses, courses_row(self, section)),
                   sections |-> Append(before.sections, sections_row(self, section)),
                   enrollments |-> before.enrollments \o enrollment_rows(self, section)]

\* line 372
prefix_str(prefix) == IF prefix # <<>> THEN prefix \o <<" ">> ELSE <<>>

\* lines 374-391: the three files in the order they are opened
gen_files(self, prefix) ==
    LET r == gen_rows(self, Len(self.sections))
    IN  <<[name |-> prefix_str(prefix) \o FileName("courses"),
           header |-> <<"course_id", "short_name", "long_name", "account_id", "term_id",
                        "status", "start_date", "end_date">>,
           rows |-> r.courses],
          [name |-> prefix_str(prefix) \o FileName("sections"),
           header |-> <<"section_id", "course_id", "name", "status", "start_date",
                        "end_date">>,
           rows |-> r.sections],
          [name |-> prefix_str(prefix) \o FileName("enrollments"),
           header |-> <<"course_id", "section_id", "user_id", "role", "status">>,
           rows |-> r.enrollments]>>

\* the folder d after the last n of the files were written
RECURSIVE WriteFilesFromLast(_, _, _)
WriteFilesFromLast(d, files, n) ==
    IF n = 0 THEN d
    ELSE Put(WriteFilesFromLast(d, files, n - 1), files[Len(files) + 1 - n].name,
             [header |-> files[Len(files) + 1 - n].header,
              rows |-> files[Len(files) + 1 - n].rows])

\* the folder d after the first n of the files were written
RECURSIVE WriteFiles(_, _, _)
WriteFiles(d, files, n) ==
    IF n = 0 THEN d
    ELSE Put(WriteFiles(d, files, n - 1), files[n].name,
             [header |-> files[n].header, rows |-> files[n].rows])

\* generate_csv_files without the test of lines 347-348
generate_csv_files_nocheck(self, d, prefix, writes_ok) ==
    [disk |-> WriteFiles(d, gen_files(self, prefix), writes_ok),
     msg |-> IF writes_ok < 3 THEN "Error writing files"
             ELSE "Successfully generated files"]

\* generate_csv_files into the folder d; opening the file after the first
\* writes_ok ones raises IOError when writes_ok < 3
generate_csv_files(self, d, prefix, writes_ok) ==
    IF self.sections = <<>>
    THEN [disk |-> d, msg |-> "No sections created. Cannot generate CSV files."]
    ELSE [disk |-> WriteFiles(d, gen_files(self, prefix), writes_ok),
          msg |-> IF writes_ok < 3 THEN "Error writing files"
                  ELSE "Successfully generated files"]

\* App.generate_csv with a prefix entered and a folder chosen
Generate(prefix, writes_ok) ==
    LET r == generate_csv_files(dm, disk, prefix, writes_ok)
    IN  /\ disk' = r.disk
        /\ last' = Ran("generate", "", prefix, writes_ok, r.msg)
        /\ UNCHANGED <<dm, file, courseSrc>>

----------------------------------------------------------------------------
(* SpecGenerate: a stored repository of one Person, two Courses, a Term and  *)
(* an Account; Sections created, the Person enrolled, the Student role       *)
(* deleted, the Canvas files generated                                       *)

\* a DATA_FILE written by an earlier run of the program, holding the Sections secs
GenDoc(secs) ==
    JsonFile(
      [people |-> <<[k |-> <<"u">>, v |-> [user_id |-> <<"u">>, name |-> <<"n">>,
                                            program_area_name |-> <<>>]]>>,
       courses |-> <<[k |-> <<"C">>, v |-> [course_id_portion |-> <<"C">>,
                                            short_name |-> <<"s">>, long_name |-> <<"l">>,
                                            program_area_name |-> <<>>]],
                     [k |-> <<"(">>, v |-> [course_id_portion |-> <<"(">>,
                                            short_name |-> <<"t">>, long_name |-> <<"m">>,
                                            program_area_name |-> <<>>]]>>,
       terms |-> <<[k |-> <<"F">>, v |-> [name |-> <<"F">>, term_id |-> <<"1">>,
                                          short_code |-> <<"f">>]]>>,
       accounts |-> <<[k |-> <<"7">>, v |-> [account_id |-> <<"7">>]]>>,
       program_areas |-> <<>>,
       enrollment_roles |-> get_default_roles,
       sections |-> secs])

StartWithGenDoc == StartWith(GenDoc(<<>>))

DriveGenerate ==
    [items |-> {},
     user_id |-> {}, person_name |-> {},
     program_area_name |-> {}, pa_name |-> {},
     course_id_portion |-> {},
     short_name |-> {}, long_name |-> {},
     term_name |-> {}, term_id |-> {}, short_code |-> {},
     account_id |-> {},
     section_number |-> {<<"0">>}, section_status |-> {T_active},
     date |-> {<<>>}, role |-> {T_Student}, enrollment_status |-> {T_active}]

\* the number of Enrollments of all Sections
RECURSIVE TotalEnrollments(_, _)
TotalEnrollments(self, n) ==
    IF n = 0 THEN 0
    ELSE TotalEnrollments(self, n - 1) + Len(self.sections[n].enrollments)

\* EnrollmentDialog.add_enrollment while the Sections hold fewer than
\* MaxEnrollments Enrollments together
EnrollSome(D) ==
    \E i \in DOMAIN dm.sections :
       \E p \in people_options(dm, T_AllProgramAreas), role \in D.role,
          st \in D.enrollment_status :
          /\ TotalEnrollments(dm, Len(dm.sections)) < MaxEnrollments
          /\ AddEnrollment(i, p, role, st)

\* App.generate_csv with one of the prefixes P entered and every write succeeding
Generates(P) == \E prefix \in P : Generate(prefix, 3)

NextGenerate ==
    \/ StartWithGenDoc
    \/ CreateSections(DriveGenerate)
    \/ EnrollSome(DriveGenerate)
    \/ Generates({<<>>})

SpecGenerate == Init /\ [][NextGenerate]_vars

\* the content of the generated file `stem` in the folder d
C15_File(d, stem) == Get(d, prefix_str(last'.key) \o FileName(stem))

\* the Sections whose Course and Term are both stored, in list order
C15_Resolved(self) ==
    SelectSeq(self.sections,
              LAMBDA s : s.course_id_portion \in Keys(self.courses)
                         /\ s.term_name \in Keys(self.terms))

\* course_id and section_id of a Section
C15_CourseId(self, s) ==
    s.course_id_portion \o <<"-">> \o Get(self.terms, s.term_name).short_code
        \o <<"-">> \o s.section_number
C15_SectionId(self, s) ==
    Get(self.terms, s.term_name).short_code \o <<"-">> \o s.course_id_portion
        \o <<"-">> \o s.section_number

\* C15: a generation over a non-empty Section list writes, for every Section
\* whose Course and Term resolve and in list order, one courses-row and one
\* sections-row with the ids and names composed from the Section, its Course and
\* its Term, and one enrollments-row per Enrollment of such a Section carrying
\* the same course_id and section_id, the user_id and the status
C15_GeneratedRows ==
    [][(last'.op = "generate" /\ last'.msg = "Successfully generated files")
         => LET R == C15_Resolved(dm)
                cf == C15_File(disk', "courses")
                sf == C15_File(disk', "sections")
                ef == C15_File(disk', "enrollments")
            IN  /\ Len(cf.rows) = Len(R) /\ Len(sf.rows) = Len(R)
                /\ \A i \in DOMAIN R :
                      LET s == R[i]
                          c == Get(dm.courses, s.course_id_portion)
                          t == Get(dm.terms, s.term_name)
                      IN  /\ cf.rows[i] =
                                [course_id |-> C15_CourseId(dm, s),
                                 short_name |-> c.short_name,
                                 long_name |-> c.long_name \o <<"-">> \o s.section_number,
                                 account_id |-> s.account_id, term_id |-> t.term_id,
                                 status |-> s.status, start_date |-> s.start_date,
                                 end_date |-> s.end_date]
                          /\ sf.rows[i] =
                                [section_id |-> C15_SectionId(dm, s),
                                 course_id |-> C15_CourseId(dm, s),
                                 name |-> c.long_name \o <<"-">> \o s.section_number,
                                 status |-> s.status, start_date |-> s.start_date,
                                 end_date |-> s.end_date]
                          /\ \A j \in DOMAIN s.enrollments :
                                LET e == TotalEnrollments([sections |-> R], i - 1) + j
                                IN  /\ e \in DOMAIN ef.rows
                                    /\ ef.rows[e].course_id = C15_CourseId(dm, s)
                                    /\ ef.rows[e].section_id = C15_SectionId(dm, s)
                                    /\ ef.rows[e].user_id = s.enrollments[j].user_id
                                    /\ ef.rows[e].status = s.enrollments[j].status
                /\ Len(ef.rows) = TotalEnrollments([sections |-> R], Len(R))]_vars

\* the files have been generated from two resolving Sections, one of them with an
\* Enrollment
C15_Witness ==
    /\ last.op = "generate" /\ last.msg = "Successfully generated files"
    /\ Len(dm.sections) = 2
    /\ \A i \in DOMAIN dm.sections : Resolves(dm, dm.sections[i])
    /\ \E i \in DOMAIN dm.sections : dm.sections[i].enrollments # <<>>
    /\ Has(disk, prefix_str(last.key) \o FileName("courses"))
    /\ Len(Get(disk, prefix_str(last.key) \o FileName("courses")).rows) = 2

\* the indices of the Sections whose Course or Term is not stored
C16_Unresolved(self) ==
    {i \in DOMAIN self.sections :
        \/ self.sections[i].course_id_portion \notin Keys(self.courses)
        \/ self.sections[i].term_name \notin Keys(self.terms)}

\* the ids of the Sections whose Course and Term are stored
C16_Ids(self) ==
    {[course_id |-> C15_CourseId(self, self.sections[i]),
      section_id |-> C15_SectionId(self, self.sections[i])] :
        i \in DOMAIN self.sections \ C16_Unresolved(self)}

\* C16: a generation over a non-empty Section list reports success, also when
\* every Section is skipped; a Section whose Course or Term does not resolve
\* adds no row to any of the three files, its Enrollments included, and every
\* row written belongs to a Section that resolves
C16_UnresolvedSkipped ==
    [][(last'.op = "generate" /\ dm.sections # <<>>)
         => LET U == C16_Unresolved(dm)
                cf == C15_File(disk', "courses")
                sf == C15_File(disk', "sections")
                ef == C15_File(disk', "enrollments")
                enrolled(I) == UNION {{<<i, j>> : j \in DOMAIN dm.sections[i].enrollments} :
                                         i \in I}
            IN  /\ last'.msg = "Successfully generated files"
                /\ Len(cf.rows) = Len(dm.sections) - Cardinality(U)
                /\ Len(sf.rows) = Len(dm.sections) - Cardinality(U)
                /\ Len(ef.rows) = Cardinality(enrolled(DOMAIN dm.sections \ U))
                /\ \A e \in DOMAIN cf.rows :
                      \E id \in C16_Ids(dm) : cf.rows[e].course_id = id.course_id
                /\ \A e \in DOMAIN sf.rows :
                      \E id \in C16_Ids(dm) : /\ sf.rows[e].course_id = id.course_id
                                              /\ sf.rows[e].section_id = id.section_id
                /\ \A e \in DOMAIN ef.rows :
                      \E id \in C16_Ids(dm) : /\ ef.rows[e].course_id = id.course_id
                                              /\ ef.rows[e].section_id = id.section_id]_vars

\* the files have been generated from a Section that resolves and a Section
\* that does not and holds an Enrollment
C16_Witness ==
    /\ last.op = "generate" /\ last.msg = "Successfully generated files"
    /\ C16_Unresolved(dm) # {} /\ C16_Unresolved(dm) # DOMAIN dm.sections
    /\ \E i \in C16_Unresolved(dm) : dm.sections[i].enrollments # <<>>
    /\ Len(Get(disk, prefix_str(last.key) \o FileName("courses")).rows) = 1
    /\ Get(disk, prefix_str(last.key) \o FileName("enrollments")).rows = <<>>

\* C18: a generation over an empty Section list reports that no Sections were
\* created, creates and overwrites no file and leaves the repository as it was
C18_NoSectionsNoFiles ==
    [][(last'.op = "generate" /\ dm.sections = <<>>)
         => /\ last'.msg = "No sections created. Cannot generate CSV files."
            /\ disk' = disk
            /\ dm' = dm /\ file' = file]_vars

\* a generation has been refused for want of Sections while the folder holds the
\* files of an earlier generation
C18_Witness ==
    /\ last.op = "generate"
    /\ last.msg = "No sections created. Cannot generate CSV files."
    /\ dm.sections = <<>>
    /\ Has(disk, FileName("courses"))
    /\ Get(disk, FileName("courses")).rows # <<>>

----------------------------------------------------------------------------
(* SpecGenRoles: the stored repository with one Section; the Person enrolled *)
(* as Student or Instructor, the Student role deleted, the files generated   *)

StartWithSectionDoc ==
    StartWith(GenDoc(<<[course_id_portion |-> <<"C">>, term_name |-> <<"F">>,
                        account_id |-> <<"7">>, section_number |-> <<"0">>,
                        status |-> T_active, start_date |-> <<>>, end_date |-> <<>>,
                        enrollments |-> <<>>]>>))

DriveGenRoles ==
    [items |-> {},
     user_id |-> {}, person_name |-> {},
     program_area_name |-> {}, pa_name |-> {},
     course_id_portion |-> {},
     short_name |-> {}, long_name |-> {},
     term_name |-> {}, term_id |-> {}, short_code |-> {},
     account_id |-> {},
     section_number |-> {}, section_status |-> {},
     date |-> {}, role |-> {T_Student, T_Instructor}, enrollment_status |-> {T_active}]

DeleteStudentRole == \E confirm \in BOOLEAN : DeleteRole(T_Student, confirm)

NextGenRoles ==
    \/ StartWithSectionDoc
    \/ EnrollSome(DriveGenRoles)
    \/ DeleteStudentRole
    \/ Generates({<<"p">>})

SpecGenRoles == Init /\ [][NextGenRoles]_vars

\* C17: the role written on an enrollments-row is the role map's value for the
\* Enrollment's role when that role is a key of the map and the Enrollment's role
\* itself otherwise; the generation changes neither the map nor the Enrollment
C17_RoleTranslated ==
    [][(last'.op = "generate" /\ last'.msg = "Successfully generated files")
         => LET R == C15_Resolved(dm)
                ef == C15_File(disk', "enrollments")
            IN  /\ \A i \in DOMAIN R : \A j \in DOMAIN R[i].enrollments :
                      LET e == TotalEnrollments([sections |-> R], i - 1) + j
                          role == R[i].enrollments[j].role
                      IN  ef.rows[e].role =
                             IF role \in Keys(dm.enrollment_roles)
                             THEN Get(dm.enrollment_roles, role) ELSE role
                /\ dm'.enrollment_roles = dm.enrollment_roles
                /\ dm'.sections = dm.sections]_vars

\* the files have been generated with one Enrollment whose role is a key of the
\* map and one whose role is not: the first is written translated, the second
\* as it stands
C17_Witness ==
    /\ last.op = "generate" /\ last.msg = "Successfully generated files"
    /\ Len(dm.sections) = 1 /\ Len(dm.sections[1].enrollments) = 2
    /\ dm.sections[1].enrollments[1].role = T_Instructor
    /\ dm.sections[1].enrollments[2].role = T_Student
    /\ ~Has(dm.enrollment_roles, T_Student)
    /\ Get(disk, <<"p", " ">> \o FileName("enrollments")).rows[1].role = T_teacher
    /\ Get(disk, <<"p", " ">> \o FileName("enrollments")).rows[2].role = T_Student

----------------------------------------------------------------------------
(* Raw dump: export_data_to_csvs                                             *)

\* the order of the check boxes of ExportDialog.body, by item name
ExportOrder == <<"Person", "Course", "Program Area", "Term", "Account">>

\* export_map, lines 323-329: the header row of each kind
export_headers(item_name) ==
    CASE item_name = "Person" -> <<"user_id", "name", "program_area_name">>
      [] item_name = "Course" ->
            <<"course_id_portion", "short_name", "long_name", "program_area_name">>
      [] item_name = "Term" -> <<"name", "term_id", "short_code">>
      [] item_name = "Account" -> <<"account_id">>
      [] item_name = "Program Area" -> <<"name">>

\* lines 340-341: writer.writerow(obj.to_dict()) for obj in dict.values()
export_rows(self, item_name) ==
    LET coll == self[data_map(item_name)]
    IN  [i \in DOMAIN coll |->
            [h \in fields_map(item_name) |-> Cell(to_dict(item_name, coll[i].v)[h])]]

\* lines 331-341: the files of the selected kinds that hold records, in order
export_files(self, data_types) ==
    LET kinds == SelectSeq(ExportOrder,
                           LAMBDA it : it \in data_types /\ self[data_map(it)] # <<>>)
    IN  [i \in DOMAIN kinds |->
            [name |-> FileName(data_map(kinds[i])),
             header |-> export_headers(kinds[i]),
             rows |-> export_rows(self, kinds[i])]]

\* export_data_to_csvs into the folder d; opening the file after the first
\* writes_ok ones raises IOError when fewer than all are written
export_data_to_csvs(self, d, data_types, writes_ok) ==
    LET files == export_files(self, data_types)
    IN  IF writes_ok < Len(files)
        THEN [disk |-> WriteFiles(d, files, writes_ok), msg |-> "Error writing files"]
        ELSE [disk |-> WriteFiles(d, files, Len(files)),
              msg |-> "Successfully exported selected files"]

\* App.open_export_dialog with the kinds data_types ticked and a folder chosen
Export(data_types, writes_ok) ==
    /\ data_types # {}
    /\ LET r == export_data_to_csvs(dm, disk, data_types, writes_ok)
       IN  /\ disk' = r.disk
           /\ last' = Ran("export", "", <<>>, data_types, r.msg)
    /\ UNCHANGED <<dm, file, courseSrc>>

----------------------------------------------------------------------------
(* SpecExport: People and Courses entered by hand, the raw dump exported     *)

DriveExport ==
    [items |-> {"Person", "Course"},
     user_id |-> {<<"u">>, <<"v">>}, person_name |-> {<<"n">>},
     program_area_name |-> {<<>>}, pa_name |-> {},
     course_id_portion |-> {<<"c">>, <<"C">>},
     short_name |-> {<<"s">>}, long_name |-> {<<"l">>},
     term_name |-> {}, term_id |-> {}, short_code |-> {},
     account_id |-> {},
     section_number |-> {}, section_status |-> {},
     date |-> {}, role |-> {}, enrollment_status |-> {}]

\* the export dialog confirmed with some of the kinds of D ticked, every write
\* succeeding
Exports(D) ==
    \E data_types \in SUBSET (D.items \cup {"Account"}) :
       Export(data_types, Cardinality(data_types))

NextExport ==
    \/ AddItems(DriveExport)
    \/ Exports(DriveExport)

SpecExport == Init /\ [][NextExport]_vars

\* the place of a character in the order of str comparison, for letters
C19_CharRank(c) ==
    IF \E i \in DOMAIN UpperChars : UpperChars[i] = c
    THEN CHOOSE i \in DOMAIN UpperChars : UpperChars[i] = c
    ELSE IF \E i \in DOMAIN LowerChars : LowerChars[i] = c
         THEN Len(UpperChars) + (CHOOSE i \in DOMAIN LowerChars : LowerChars[i] = c)
         ELSE 0

\* a < b for two texts
C19_TextBefore(a, b) ==
    \E i \in 1..(Len(a) + 1) :
       /\ \A j \in 1..(i - 1) : j <= Len(b) /\ a[j] = b[j]
       /\ IF i > Len(a) THEN Len(b) >= i
          ELSE i <= Len(b) /\ C19_CharRank(a[i]) < C19_CharRank(b[i])

\* the records of a collection ordered by ascending key
RECURSIVE C19_SortedByKey(_)
C19_SortedByKey(coll) ==
    IF coll = <<>> THEN <<>>
    ELSE LET least == CHOOSE i \in DOMAIN coll :
                         \A j \in DOMAIN coll : j = i \/ ~C19_TextBefore(coll[j].k, coll[i].k)
         IN  <<coll[least]>> \o C19_SortedByKey(Del(coll, coll[least].k))

\* one row per record, the records taken in ascending order of their keys
C19_SortedRows(self, item_name) ==
    LET coll == C19_SortedByKey(self[data_map(item_name)])
    IN  [i \in DOMAIN coll |->
            [h \in fields_map(item_name) |-> Cell(to_dict(item_name, coll[i].v)[h])]]

\* C19: a raw-dump export writes no file for a ticked kind without records, and
\* for every ticked kind with records a file of the fixed header row and one row
\* per record, the rows in ascending order of the records' keys
C19_ExportRowsSortedByKey ==
    [][(last'.op = "export" /\ last'.msg = "Successfully exported selected files")
         => \A it \in last'.arg :
               IF dm[data_map(it)] = <<>>
               THEN Has(disk', FileName(data_map(it))) = Has(disk, FileName(data_map(it)))
               ELSE /\ Has(disk', FileName(data_map(it)))
                    /\ Get(disk', FileName(data_map(it))).header = export_headers(it)
                    /\ Get(disk', FileName(data_map(it))).rows
                          = C19_SortedRows(dm, it)]_vars

\* the repository in which the collection of one kind is empty
C20_Emptied(self, item_name) == [self EXCEPT ![data_map(item_name)] = <<>>]

\* C20: after an export, importing the file written for a kind into a repository
\* whose collection of that kind is empty reproduces the exported collection,
\* keys and values, with every row added and none skipped
C20_RawDumpLossless ==
    last.op = "export" /\ last.msg = "Successfully exported selected files"
       => \A it \in last.arg :
             dm[data_map(it)] # <<>>
                => LET f == Get(disk, FileName(data_map(it)))
                       r == import_csv_data(C20_Emptied(dm, it), it,
                                            {f.header[i] : i \in DOMAIN f.header},
                                            f.rows, Len(f.rows))
                   IN  /\ r.msg = "ok"
                       /\ r.dm = dm
                       /\ r.added = Len(dm[data_map(it)])
                       /\ r.skipped = 0

-----------------------------------------------------------------------------
(* Clear all: DataManager.clear_all and App.clear_all_data                  *)

\* a clear_all that leaves the data file where it is
clear_all_keepfile(self, f, remove_ok) ==
    [dm |-> initialize_empty, file |-> f, ok |-> TRUE]

\* clear_all: the collections are reset first; the data file, when there is
\* one, is removed, and a removal the system refuses is the one failure
clear_all(self, f, remove_ok) ==
    IF f.kind # "nofile"
    THEN IF remove_ok
         THEN [dm |-> initialize_empty, file |-> NoFile, ok |-> TRUE]
         ELSE [dm |-> initialize_empty, file |-> f, ok |-> FALSE]
    ELSE [dm |-> initialize_empty, file |-> f, ok |-> TRUE]

T_Cleared == "All local data has been cleared."
T_NotCleared == "Could not clear all data. Check file permissions."

\* App.clear_all_data: nothing happens unless the question is answered yes
ClearAll(confirm, remove_ok) ==
    IF ~confirm
    THEN /\ last' = Ran("clear_all", "", <<>>,
                        [confirm |-> confirm, remove_ok |-> remove_ok,
                         existed |-> file.kind # "nofile"], "cancelled")
         /\ UNCHANGED <<dm, file, courseSrc, disk>>
    ELSE LET r == clear_all(dm, file, remove_ok)
         IN  /\ dm' = r.dm
             /\ file' = r.file
             /\ courseSrc' = <<>>
             /\ last' = Ran("clear_all", "", <<>>,
                            [confirm |-> confirm, remove_ok |-> remove_ok,
                             existed |-> file.kind # "nofile"],
                            IF r.ok THEN T_Cleared ELSE T_NotCleared)
             /\ UNCHANGED disk

ClearAlls == \E confirm \in BOOLEAN, remove_ok \in BOOLEAN : ClearAll(confirm, remove_ok)

-----------------------------------------------------------------------------
(* SpecClear: People and Program Areas entered by hand, roles deleted, the  *)
(* program started on a file that does not parse, and everything cleared    *)

DriveClear ==
    [items |-> {"Person", "Program Area"},
     user_id |-> {<<"u">>, <<"v">>}, person_name |-> {<<"n">>},
     program_area_name |-> {<<>>}, pa_name |-> {<<"a">>, <<"b">>},
     course_id_portion |-> {},
     short_name |-> {}, long_name |-> {},
     term_name |-> {}, term_id |-> {}, short_code |-> {},
     account_id |-> {},
     section_number |-> {}, section_status |-> {},
     date |-> {}, role |-> {}, enrollment_status |-> {}]

StartWithCorrupt == last.op = "init" /\ StartWith(Corrupt)

NextClear ==
    \/ StartWithCorrupt
    \/ AddItems(DriveClear)
    \/ DeleteStudentRole
    \/ ClearAlls
    \/ Restart

SpecClear == Init /\ [][NextClear]_vars

\* C21: a confirmed clear-all leaves every collection empty and the role map
\* at its default seed; it reports failure exactly when the data file existed
\* and its removal was refused; after a success no file is left, and a load
\* from there gives the empty-initialized repository
C21_ClearAllResets ==
    [][(last'.op = "clear_all" /\ last'.arg.confirm) =>
         /\ dm' = initialize_empty
         /\ (last'.msg = T_NotCleared) <=>
                (last'.arg.existed /\ ~last'.arg.remove_ok)
         /\ (last'.msg = T_Cleared) <=> ~(last'.msg = T_NotCleared)
         /\ last'.msg = T_Cleared =>
                /\ file' = NoFile
                /\ load_data(Blank, file').dm = initialize_empty]_vars

\* a data file that existed was removed by a confirmed clear-all
C21_Witness ==
    /\ last.op = "clear_all"
    /\ last.arg.confirm
    /\ last.arg.existed
    /\ last.msg = T_Cleared
    /\ file = NoFile
    /\ dm = initialize_empty

-----------------------------------------------------------------------------
(* SpecPersist: every handler that changes the repository, driven from one  *)
(* Person, Course, Term and Account; roles files may fail while being read  *)

DrivePersist ==
    [items |-> {"Person", "Course", "Term", "Account"},
     user_id |-> {<<"u">>}, person_name |-> {<<"n">>},
     program_area_name |-> {<<>>}, pa_name |-> {},
     course_id_portion |-> {<<"C">>},
     short_name |-> {<<"s">>}, long_name |-> {<<"l">>},
     term_name |-> {<<"F">>}, term_id |-> {<<"1">>}, short_code |-> {<<"f">>},
     account_id |-> {<<"7">>},
     section_number |-> {<<"0">>}, section_status |-> {T_active},
     date |-> {<<>>}, role |-> {T_Student}, enrollment_status |-> {T_active}]

\* App.import_roles with a file that carries both columns and the display name
\* x in every row; reading it may fail after any number of rows
ImportRoleReads ==
    \E rows \in SeqUpTo({[display_name |-> <<"x">>, canvas_role |-> <<"a">>]}, MaxRows) :
       \E read_ok \in 0..Len(rows) :
          ImportRoles({"display_name", "canvas_role"}, rows, read_ok)

AddRoleX == AddRole(<<"x">>, <<"a">>)
EditRoleX == EditRole(<<"x">>, <<"b">>)
DeleteRoleX == \E confirm \in BOOLEAN : DeleteRole(<<"x">>, confirm)

NextPersist ==
    \/ AddItems(DrivePersist)
    \/ EditItems(DrivePersist)
    \/ DeleteItems(DrivePersist)
    \/ ImportCsvs(DrivePersist)
    \/ CreateSections(DrivePersist)
    \/ EditSections(DrivePersist)
    \/ DeleteSections
    \/ AddEnrollments(DrivePersist)
    \/ DeleteEnrollments
    \/ AddRoleX
    \/ EditRoleX
    \/ DeleteRoleX
    \/ ImportRoleReads
    \/ ClearAlls

SpecPersist == Init /\ [][NextPersist]_vars

\* the handlers the statement lists
C22_Mutations ==
    {"add_item", "edit_item", "delete_item", "import",
     "create_section", "edit_section", "delete_section",
     "add_enrollment", "delete_enrollment",
     "add_role", "edit_role", "delete_role", "import_roles", "clear_all"}

\* C22: when one of the listed handlers has changed the repository in memory
\* (and no removal or write of the data file was refused), loading the data
\* file as it then stands gives the repository as it then stands in memory
C22_SavedAfterEveryMutation ==
    [][(/\ last'.op \in C22_Mutations
        /\ dm' # dm
        /\ ~(last'.op = "clear_all" /\ last'.msg = T_NotCleared))
         => load_data(Blank, file').dm = dm']_vars

-----------------------------------------------------------------------------
(* SpecDelete: a stored repository with three Sections, the first with      *)
(* three Enrollments; Sections and Enrollments deleted in batches           *)

DocSection(section_number, enrollments) ==
    [course_id_portion |-> <<"C">>, term_name |-> <<"F">>,
     account_id |-> <<"7">>, section_number |-> section_number,
     status |-> T_active, start_date |-> <<>>, end_date |-> <<>>,
     enrollments |-> enrollments]

DocEnrollment(role) == [user_id |-> <<"u">>, role |-> role, status |-> T_active]

StartWithDeleteDoc ==
    StartWith(GenDoc(<<DocSection(<<"0">>, <<DocEnrollment(T_Student),
                                            DocEnrollment(T_Instructor),
                                            DocEnrollment(<<"x">>)>>),
                       DocSection(<<"1">>, <<DocEnrollment(T_Instructor)>>),
                       DocSection(<<"2">>, <<>>)>>))

NextDelete ==
    \/ StartWithDeleteDoc
    \/ DeleteSections
    \/ DeleteEnrollments

SpecDelete == Init /\ [][NextDelete]_vars

\* the first n items of lst without those at the positions in selected
RECURSIVE C23_Remaining(_, _, _)
C23_Remaining(lst, selected, n) ==
    IF n = 0 THEN <<>>
    ELSE IF n \in selected THEN C23_Remaining(lst, selected, n - 1)
         ELSE Append(C23_Remaining(lst, selected, n - 1), lst[n])

\* C23: a batch deletion removes exactly the items at the selected positions
\* and keeps the others in their order; a deleted Section goes with its
\* Enrollments and every other Section stays as it was, and a deletion of
\* Enrollments touches nothing but the Enrollment list of its Section
C23_BatchDeleteBySelection ==
    [][/\ last'.op = "delete_section" =>
            dm' = [dm EXCEPT !.sections =
                      C23_Remaining(dm.sections, last'.arg, Len(dm.sections))]
       /\ last'.op = "delete_enrollment" =>
            dm' = [dm EXCEPT !.sections[last'.key[1]].enrollments =
                      C23_Remaining(dm.sections[last'.key[1]].enrollments, last'.arg,
                                    Len(dm.sections[last'.key[1]].enrollments))]]_vars

\* the first and the last of three Sections have been deleted together; the
\* middle one is left with its Enrollment
C23_Witness ==
    /\ last.op = "delete_section"
    /\ last.arg = {1, 3}
    /\ Len(dm.sections) = 1
    /\ dm.sections[1].section_number = <<"1">>
    /\ Len(dm.sections[1].enrollments) = 1

-----------------------------------------------------------------------------
(* SpecGenFail: the stored repository of SpecGenerate; Sections created and  *)
(* the files generated into one folder, any of the three writes failing      *)

GeneratesOrFails == \E writes_ok \in 0..3 : Generate(<<>>, writes_ok)

NextGenFail ==
    \/ StartWithGenDoc
    \/ CreateSections(DriveGenerate)
    \/ GeneratesOrFails

SpecGenFail == Init /\ [][NextGenFail]_vars

\* the file names in the order of writing
C24_Order == <<FileName("courses"), FileName("sections"), FileName("enrollments")>>

\* the file called name is the same in the folders d and e
C24_SameFile(d, e, name) ==
    /\ Has(d, name) <=> Has(e, name)
    /\ Has(d, name) => Get(d, name) = Get(e, name)

\* C24: the files are written in the order courses, sections, enrollments; when
\* a write fails the error message is returned, the files before the failing
\* one are in the folder with their complete content, no file after it is
\* written, and the repository and its data file are as before
C24_FailedWriteStopsGeneration ==
    [][(/\ last'.op = "generate"
        /\ dm.sections # <<>>
        /\ last'.arg < 3)
         => /\ last'.msg = "Error writing files"
            /\ \A n \in 1..last'.arg :
                  /\ gen_files(dm, last'.key)[n].name = C24_Order[n]
                  /\ Has(disk', C24_Order[n])
                  /\ Get(disk', C24_Order[n]) =
                        [header |-> gen_files(dm, last'.key)[n].header,
                         rows |-> gen_files(dm, last'.key)[n].rows]
            /\ \A n \in (last'.arg + 2)..3 : C24_SameFile(disk', disk, C24_Order[n])
            /\ dm' = dm
            /\ file' = file]_vars

\* the second write failed: the courses file of this generation, with two
\* rows, stands next to the sections file of an earlier one, with one row
C24_Witness ==
    /\ last.op = "generate"
    /\ last.arg = 1
    /\ last.msg = "Error writing files"
    /\ Has(disk, FileName("courses"))
    /\ Len(Get(disk, FileName("courses")).rows) = 2
    /\ Has(disk, FileName("sections"))
    /\ Len(Get(disk, FileName("sections")).rows) = 1

-----------------------------------------------------------------------------
(* SpecMigrate: the program started on documents whose Sections name their  *)
(* Term by a display name, by a term_id, or by neither                      *)

MaxDocTerms == 2

\* the Term records of the documents
MigrateTerms ==
    [name : {<<"a">>, <<"b">>}, term_id : {<<"a">>, <<"b">>, <<"1">>},
     short_code : {<<"f">>}]

\* Terms as a document holds them: keyed by display name, as save_data writes
\* them, or keyed by term_id, as the earlier format did; the keys are distinct
MigrateTermsDocs ==
    UNION {{[i \in DOMAIN ts |-> [k |-> ts[i][kf], v |-> ts[i]]] :
               ts \in {t \in SeqUpTo(MigrateTerms, MaxDocTerms) :
                          \A i, j \in DOMAIN t : t[i][kf] = t[j][kf] => i = j}} :
           kf \in {"name", "term_id"}}

MigrateSections ==
    {[course_id_portion |-> <<"C">>, term_name |-> t, account_id |-> <<"7">>,
      section_number |-> <<"0">>] : t \in {<<>>, <<"a">>, <<"b">>, <<"1">>}}

MigrateDocs ==
    {JsonFile([terms |-> t, sections |-> s]) :
        t \in MigrateTermsDocs, s \in SeqUpTo(MigrateSections, MaxDocSections)}

\* the one load of a run, in DataManager.__init__
StartWithMigrateDocs == last.op = "init" /\ \E f \in MigrateDocs : StartWith(f)

NextMigrate == StartWithMigrateDocs

SpecMigrate == Init /\ [][NextMigrate]_vars

\* some loaded Term has the term_id t
C25_IsTermId(t) == \E j \in DOMAIN dm.terms : dm.terms[j].v.term_id = t

\* C25: after a load, a Section whose stored term_name is non-empty, is no key
\* of the loaded Terms and is the term_id of a loaded Term carries the name of
\* a Term with that term_id; a Section whose stored term_name is a key of the
\* loaded Terms keeps it, also when it is some Term's term_id
C25_TermIdMigratedOnLoad ==
    (last.op = "load" /\ last.msg = "loaded")
       => \A i \in DOMAIN file.data.sections :
             LET stored == file.data.sections[i].term_name
             IN  /\ (~Falsy(stored) /\ ~Has(dm.terms, stored) /\ C25_IsTermId(stored))
                       => \E j \in DOMAIN dm.terms :
                             /\ dm.terms[j].v.term_id = stored
                             /\ dm.sections[i].term_name = dm.terms[j].v.name
                 /\ Has(dm.terms, stored) => dm.sections[i].term_name = stored

\* a Section stored with the term_id 1 was loaded with the name of that Term
C25_Witness ==
    /\ last.op = "load" /\ last.msg = "loaded"
    /\ Len(dm.sections) = 1
    /\ file.data.sections[1].term_name = <<"1">>
    /\ dm.sections[1].term_name = <<"a">>
    /\ Has(dm.terms, <<"a">>)
    /\ Get(dm.terms, <<"a">>).term_id = <<"1">>

\* a Section stored with the name b, which is also the term_id of Term a, was
\* loaded with the name b
C25_WitnessKept ==
    /\ last.op = "load" /\ last.msg = "loaded"
    /\ Len(dm.sections) = 1
    /\ file.data.sections[1].term_name = <<"b">>
    /\ dm.sections[1].term_name = <<"b">>
    /\ Has(dm.terms, <<"a">>) /\ Has(dm.terms, <<"b">>)
    /\ Get(dm.terms, <<"a">>).term_id = <<"b">>

-----------------------------------------------------------------------------
(* SpecKeys: entities of every kind added, edited and imported; Course      *)
(* identifiers are typed in either case                                     *)

DriveKeys ==
    [items |-> ItemNames,
     user_id |-> {<<"u">>}, person_name |-> {<<"n">>},
     program_area_name |-> {<<>>}, pa_name |-> {<<"a">>},
     course_id_portion |-> {<<"c">>, <<"C">>},
     short_name |-> {<<"s">>}, long_name |-> {<<"l">>},
     term_name |-> {<<"F">>}, term_id |-> {<<"1">>}, short_code |-> {<<"f">>},
     account_id |-> {<<"7">>},
     section_number |-> {}, section_status |-> {},
     date |-> {}, role |-> {}, enrollment_status |-> {}]

NextKeys ==
    \/ AddItems(DriveKeys)
    \/ EditItems(DriveKeys)
    \/ ImportCsvs(DriveKeys)

SpecKeys == Init /\ [][NextKeys]_vars

\* C26: every Person, Course, Term, Account and Program Area is stored under a
\* key equal to its own key field (user_id, course_id_portion, name,
\* account_id, name)
C26_KeyEqualsKeyField ==
    \A item_name \in ItemNames :
       \A i \in DOMAIN dm[data_map(item_name)] :
          dm[data_map(item_name)][i].v[key_field_map(item_name)] =
             dm[data_map(item_name)][i].k

-----------------------------------------------------------------------------
(* SpecRefs: from the empty repository, a Person, a Term, an Account and a  *)
(* Course whose identifier is an opening parenthesis; Sections and          *)
(* Enrollments made from them, and everything deleted or cleared again      *)

DriveRefs ==
    [items |-> {"Person", "Course", "Term", "Account"},
     user_id |-> {<<"u">>}, person_name |-> {<<"n">>},
     program_area_name |-> {<<>>}, pa_name |-> {},
     course_id_portion |-> {<<"(">>},
     short_name |-> {<<"s">>}, long_name |-> {<<"l">>},
     term_name |-> {<<"F">>}, term_id |-> {<<"1">>}, short_code |-> {<<"f">>},
     account_id |-> {<<"7">>},
     section_number |-> {<<"0">>}, section_status |-> {T_active},
     date |-> {<<>>}, role |-> {T_Student}, enrollment_status |-> {T_active}]

ClearAllConfirmed == \E remove_ok \in BOOLEAN : ClearAll(TRUE, remove_ok)

NextRefs ==
    \/ AddItems(DriveRefs)
    \/ EditItems(DriveRefs)
    \/ DeleteItems(DriveRefs)
    \/ ImportCsvs(DriveRefs)
    \/ CreateSections(DriveRefs)
    \/ EditSections(DriveRefs)
    \/ DeleteSections
    \/ AddEnrollments(DriveRefs)
    \/ DeleteEnrollments
    \/ ClearAllConfirmed

SpecRefs == Init /\ [][NextRefs]_vars

\* C27: every Section names a Course, a Term and an Account that are keys of
\* their collections, and every Enrollment names a Person that is a key of
\* People
C27_ReferencesResolve ==
    \A i \in DOMAIN dm.sections :
       /\ Has(dm.courses, dm.sections[i].course_id_portion)
       /\ Has(dm.terms, dm.sections[i].term_name)
       /\ Has(dm.accounts, dm.sections[i].account_id)
       /\ \A j \in DOMAIN dm.sections[i].enrollments :
             Has(dm.people, dm.sections[i].enrollments[j].user_id)

-----------------------------------------------------------------------------
(* SpecAreaRefs: a Program Area, a Person and a Course added, edited,       *)
(* deleted and imported; the files may name a Program Area in their rows    *)

DriveAreaRefs ==
    [items |-> {"Program Area", "Person", "Course"},
     user_id |-> {<<"u">>}, person_name |-> {<<"n">>},
     program_area_name |-> {<<>>, <<"P">>},
     pa_name |-> {<<"P">>},
     course_id_portion |-> {<<"C">>},
     short_name |-> {<<"s">>}, long_name |-> {<<"l">>},
     term_name |-> {}, term_id |-> {}, short_code |-> {},
     account_id |-> {},
     section_number |-> {}, section_status |-> {},
     date |-> {}, role |-> {}, enrollment_status |-> {}]

NextAreaRefs ==
    \/ AddItems(DriveAreaRefs)
    \/ EditItems(DriveAreaRefs)
    \/ DeleteItems(DriveAreaRefs)
    \/ ImportCsvs(DriveAreaRefs)

SpecAreaRefs == Init /\ [][NextAreaRefs]_vars

\* C28: every non-empty program_area_name stored on a Person or on a Course
\* is a key of the Program Areas
C28_ProgramAreaRefsResolve ==
    /\ \A i \in DOMAIN dm.people :
          Falsy(dm.people[i].v.program_area_name)
             \/ Has(dm.program_areas, dm.people[i].v.program_area_name)
    /\ \A i \in DOMAIN dm.courses :
          Falsy(dm.courses[i].v.program_area_name)
             \/ Has(dm.program_areas, dm.courses[i].v.program_area_name)

-----------------------------------------------------------------------------
(* Identifiers of the generated rows, on SpecGenerate *)

\* the rows of one file differ pairwise in the column f
C29_Distinct(rows, f) ==
    \A i, j \in DOMAIN rows : rows[i][f] = rows[j][f] => i = j

\* C29: in the files of one generation no two courses-rows carry the same
\* course_id and no two sections-rows carry the same section_id
C29_GeneratedIdsUnique ==
    [][(last'.op = "generate" /\ last'.msg = "Successfully generated files")
         => /\ C29_Distinct(
                  Get(disk', prefix_str(last'.key) \o FileName("courses")).rows,
                  "course_id")
            /\ C29_Distinct(
                  Get(disk', prefix_str(last'.key) \o FileName("sections")).rows,
                  "section_id")]_vars

-----------------------------------------------------------------------------
(* SpecImportFirst: a Person and an Account entered by hand; people files    *)
(* whose rows name u with one of two names or with none                     *)

DriveFirstHand ==
    [items |-> {"Person", "Account"},
     user_id |-> {<<"v">>}, person_name |-> {<<"n">>},
     program_area_name |-> {<<>>}, pa_name |-> {},
     course_id_portion |-> {},
     short_name |-> {}, long_name |-> {},
     term_name |-> {}, term_id |-> {}, short_code |-> {},
     account_id |-> {<<"7">>},
     section_number |-> {}, section_status |-> {},
     date |-> {}, role |-> {}, enrollment_status |-> {}]

\* the cells of the files
DriveFirst ==
    [items |-> {"Person"},
     user_id |-> {<<"u">>}, person_name |-> {<<>>, <<"n">>, <<"m">>},
     program_area_name |-> {<<>>}, pa_name |-> {},
     course_id_portion |-> {},
     short_name |-> {}, long_name |-> {},
     term_name |-> {}, term_id |-> {}, short_code |-> {},
     account_id |-> {},
     section_number |-> {}, section_status |-> {},
     date |-> {}, role |-> {}, enrollment_status |-> {}]

\* open_import_dialog with one people file chosen, its header row complete, the
\* read failing after any number of rows
ImportFirstFiles ==
    \E rows \in SeqUpTo(FileRows(DriveFirst, "Person", required_headers("Person")),
                        MaxRows) :
       \E read_ok \in 0..Len(rows) :
          ImportCsv("Person", required_headers("Person"), rows, read_ok)

NextImportFirst ==
    \/ AddItems(DriveFirstHand)
    \/ ImportFirstFiles

SpecImportFirst == Init /\ [][NextImportFirst]_vars

\* row n is the first row of the file that carries the key k together with
\* every required field
C30_FirstValid(item, rows, n, k) ==
    /\ RowGet(rows[n], key_field_map(item)) = k
    /\ \A h \in required_headers(item) : ~Falsy(RowGet(rows[n], h))
    /\ \A m \in 1..(n - 1) :
          ~(/\ RowGet(rows[m], key_field_map(item)) = k
            /\ \A h \in required_headers(item) : ~Falsy(RowGet(rows[m], h)))

\* C30: an import of one entity kind, whatever its outcome, leaves every record
\* that was stored under its key with its values, leaves every other
\* collection and the Section list as they were, and stores for a new key the
\* values of the first row of the file that carries the key and every
\* required field
C30_ImportOnlyAdds ==
    [][last'.op = "import"
         => LET item == last'.item
                rows == last'.arg.rows
                coll == data_map(item)
            IN  /\ \A f \in DOMAIN dm \ {coll} : dm'[f] = dm[f]
                /\ \A k \in Keys(dm[coll]) :
                      /\ Has(dm'[coll], k)
                      /\ Get(dm'[coll], k) = Get(dm[coll], k)
                /\ \A k \in Keys(dm'[coll]) \ Keys(dm[coll]) :
                      \E n \in 1..last'.arg.read_ok :
                         /\ C30_FirstValid(item, rows, n, k)
                         /\ Get(dm'[coll], k).user_id = rows[n]["user_id"]
                         /\ Get(dm'[coll], k).name = rows[n]["name"]]_vars

\* next to Person v and Account 7 a file naming u twice, as m and then as n,
\* was imported: u is stored as m
C30_Witness ==
    /\ last.op = "import" /\ last.msg = "ok"
    /\ Len(last.arg.rows) = 2
    /\ last.arg.rows[1]["name"] = <<"m">>
    /\ last.arg.rows[2]["name"] = <<"n">>
    /\ Has(dm.people, <<"v">>) /\ Has(dm.accounts, <<"7">>)
    /\ Has(dm.people, <<"u">>)
    /\ Get(dm.people, <<"u">>).name = <<"m">>
    /\ last.arg.added = 1

====
